---------------------------- MODULE Spec2Model ----------------------------
(***************************************************************************)
(* PR-QUEST: the unified-diff parser (lib/diff-index), the heuristic       *)
(* grouping engine (lib/heuristic-steps), the model-assisted grouping      *)
(* adapter (lib/llm-steps) with its prompt, the /api/group route, the      *)
(* pull-request URL parser (lib/pr-url), the /api/diff route and the       *)
(* StepViewer component's step index.                                      *)
(*                                                                         *)
(* Strings are modelled structurally.  A path is the sequence of its       *)
(* "/"-separated segments; a token of a diff line is a record              *)
(* [quoted, segs]; texts built by template literals are tuples of their    *)
(* parts.  Properties of single segments that the code computes by         *)
(* substring search (extension, keyword containment, white space) are      *)
(* tabulated for the segment vocabulary used by the inputs.                *)
(***************************************************************************)
EXTENDS Integers, Sequences, FiniteSets, TLC

VARIABLES
    \* ---- parseUnifiedDiff (one call in progress)
    ppc,          \* "scan" while the for-loop over lines runs, "done" after return
    consumed,     \* the lines read so far (the input text, in order)
    currentFile,  \* the WorkingDiffFile accumulator, or NoFile
    files,        \* the DiffFileEntry list built so far
    \* ---- buildHeuristicReviewPlan (caller's index and the calls made on it)
    hpc,          \* "index" while the caller assembles the index, then "built", "rebuilt"
    hIndex,       \* the files of the DiffIndex handed to the engine
    hTitle,       \* the prTitle option of the calls
    hDescs,       \* the prDescription option of each call made, in order
    plan,         \* the plan returned by the latest call, or NoPlan
    prevPlan,     \* the plan returned by the call before it, or NoPlan
    \* ---- buildLlmReviewPlan / POST /api/group
    lpc,          \* "idle", "loop" (top of the for loop), "returned", "rejected"
    lReq,         \* the options of the call in progress
    prompt,       \* the prompt built for the call, or NoPrompt
    attempt,      \* the loop variable
    lastError,    \* the local lastError
    outcomes,     \* what each generate() invocation of this call did, in order
    lResult,      \* the value the promise resolved with, or NoPlan
    lThrown,      \* the error the promise rejected with, or NoError
    response,     \* the route's response, or NoResponse
    \* ---- parseGitHubPrUrl (a caller parsing an input, then the returned htmlUrl)
    upc,          \* "input", "parsed" after the first call, "reparsed" after the second
    urlInput,     \* the text given to the first call
    firstParse,   \* the result of the first call, or NoResult
    secondParse,  \* the result of the call on firstParse.value.htmlUrl, or NoResult
    \* ---- GET /api/diff (one request)
    dpc,          \* "idle", "fetching" (await fetch), "reading" (await text), "done", "rejected"
    dRawPrUrl,    \* the prUrl parameter of the request
    diffUrl,      \* the URL handed to fetch, if any
    githubResponse, \* the upstream response, or NoGithubResponse
    diffText,     \* the text read from the upstream response, or NoText
    diffResponse, \* the response of the route, or NoDiffResponse
    \* ---- StepViewer (one mounted component)
    vpc,          \* "unmounted", "mounted" (rendered, effects pending), "ready"
    totalSteps,   \* plan.steps.length
    initialStepIndex, \* the initialStepIndex prop
    activeIndex,  \* the activeIndex state
    stepChanges,  \* the indexes onStepChange was called with, in order
    lastOp        \* the control used last and the activeIndex it found

pvars == <<ppc, consumed, currentFile, files>>
hvars == <<hpc, hIndex, hTitle, hDescs, plan, prevPlan>>
lvars == <<lpc, lReq, prompt, attempt, lastError, outcomes, lResult, lThrown, response>>
uvars == <<upc, urlInput, firstParse, secondParse>>
dvars == <<dpc, dRawPrUrl, diffUrl, githubResponse, diffText, diffResponse>>
svars == <<vpc, totalSteps, initialStepIndex, activeIndex, stepChanges, lastOp>>
xvars == <<uvars, dvars, svars>>
vars == <<pvars, hvars, lvars, xvars>>

----------------------------------------------------------------------------
(* Bounds of the model *)

MaxLines == 5

----------------------------------------------------------------------------
(* Generic helpers *)

Range(s) == {s[i] : i \in 1..Len(s)}

Last(s) == s[Len(s)]

RECURSIVE FlatMap(_, _)
FlatMap(Op(_), s) == IF s = <<>> THEN <<>> ELSE Op(Head(s)) \o FlatMap(Op, Tail(s))

----------------------------------------------------------------------------
(* Segment vocabulary and the string facts the code derives from it *)

\* segments that contain white space
SpacedSegments == {"old name.ts", "new name.ts"}

HasWhitespace(segs) == \E i \in 1..Len(segs) : segs[i] \in SpacedSegments

\* filename.slice(lastDotIndex + 1).toLowerCase(), or "" where the code answers null
ExtensionOf(seg) ==
    CASE seg \in {"x.ts", "y.ts", "old name.ts", "new name.ts", "u.test.ts",
                  "util.ts", "main.ts", "latest.ts", "gone.ts"} -> "ts"
      [] seg \in {"page.tsx", "Button.tsx", "layout.tsx"} -> "tsx"
      [] seg \in {"guide.md", "README.md"} -> "md"
      [] seg \in {"package.json"} -> "json"
      [] seg \in {"ci.yml"} -> "yml"
      [] seg \in {"logo.png"} -> "png"
      [] OTHER -> ""

----------------------------------------------------------------------------
(* lib/diff-index: values *)

NullPath == <<"<null>">>          \* the JavaScript null of a path
EmptyPath == <<>>                 \* the empty string
DevNull == <<"", "dev", "null">>  \* "/dev/null"
NullLanguage == "<null>"

Falsy(path) == path = NullPath \/ path = EmptyPath

\* a ?? b
Coalesce(a, b) == IF a = NullPath THEN b ELSE a

Tok(quoted, segs) == [quoted |-> quoted, segs |-> segs]
NoTok == Tok(FALSE, <<>>)

\* A line of the diff text: k is the prefix the parser recognises it by ("" for any
\* other line), p and q the path tokens that follow, o and n the start numbers of
\* a hunk header, wellFormed whether an "@@" line matches HUNK_HEADER_REGEX.
Line(k, p, q, o, n, wf) == [k |-> k, p |-> p, q |-> q, o |-> o, n |-> n, wellFormed |-> wf]

DiffLine(p, q) == Line("diff --git ", p, q, 0, 0, TRUE)
HunkLine(o, n) == Line("@@", NoTok, NoTok, o, n, TRUE)
BadHunkLine == Line("@@", NoTok, NoTok, 0, 0, FALSE)
MarkerLine(k, p) == Line(k, p, NoTok, 0, 0, TRUE)
PlainLine(k) == Line(k, NoTok, NoTok, 0, 0, TRUE)

StartsWith(line, prefix) == line.k = prefix

NoFile ==
    [oldPath |-> NullPath, newPath |-> NullPath, status |-> "<null>",
     binary |-> FALSE, hunks |-> <<>>]

----------------------------------------------------------------------------
(* lib/diff-index: path helpers *)

stripPrefix(path) ==
    IF Falsy(path) THEN NullPath
    ELSE IF Len(path) >= 2 /\ path[1] \in {"a", "b"}
         THEN (IF Tail(path) = <<"">> THEN EmptyPath ELSE Tail(path))
         ELSE path

unquotePath(tok) == tok.segs

\* the vocabulary has no leading or trailing white space, so trim() changes nothing
normalizePath(tok) ==
    IF Falsy(tok.segs) THEN NullPath
    ELSE IF ~tok.quoted /\ tok.segs = DevNull THEN NullPath
    ELSE stripPrefix(unquotePath(tok))

\* one side of DIFF_HEADER_REGEX: "a/(.+)" in quotes, or a/([^\s]+)
HeaderSideMatches(tok, marker) ==
    /\ Len(tok.segs) >= 2
    /\ tok.segs[1] = marker
    /\ tok.segs[2] # ""  \/ Len(tok.segs) > 2
    /\ tok.quoted \/ ~HasWhitespace(tok.segs)

Captured(tok) == Tok(FALSE, Tail(tok.segs))

\* null when the line does not match
parseDiffHeader(line) ==
    IF HeaderSideMatches(line.p, "a") /\ HeaderSideMatches(line.q, "b")
    THEN [matched |-> TRUE,
          oldPath |-> normalizePath(Captured(line.p)),
          newPath |-> normalizePath(Captured(line.q))]
    ELSE [matched |-> FALSE, oldPath |-> NullPath, newPath |-> NullPath]

\* FILE_PATH_REGEX on the text after "--- " or "+++ "
parseFilePathLine(tok) ==
    IF /\ Len(tok.segs) >= 2
       /\ tok.segs[1] \in {"a", "b"}
       /\ tok.quoted \/ ~HasWhitespace(tok.segs)
    THEN normalizePath(Captured(tok))
    ELSE IF ~tok.quoted /\ tok.segs = DevNull
    THEN normalizePath(tok)
    ELSE NullPath

parseHunkHeader(line) ==
    IF line.wellFormed
    THEN [matched |-> TRUE, oldStart |-> line.o, newStart |-> line.n]
    ELSE [matched |-> FALSE, oldStart |-> 0, newStart |-> 0]

determineFileId(file) ==
    IF file.status = "deleted"
    THEN Coalesce(file.oldPath, Coalesce(file.newPath, EmptyPath))
    ELSE IF file.status \in {"renamed", "copied"}
    THEN Coalesce(file.newPath, Coalesce(file.oldPath, EmptyPath))
    ELSE Coalesce(file.newPath, Coalesce(file.oldPath, EmptyPath))

detectLanguage(path) ==
    IF Last(path) = "" THEN NullLanguage
    ELSE IF ExtensionOf(Last(path)) = "" THEN NullLanguage
    ELSE ExtensionOf(Last(path))

createWorkingFile(header) ==
    [oldPath |-> header.oldPath, newPath |-> header.newPath, status |-> "modified",
     binary |-> FALSE, hunks |-> <<>>]

HunkId(fileId, index) == <<fileId, "#h", index>>

\* the DiffFileEntry of a working file as a list: <<entry>>, or <<>> for null
\* variant: hunk ids are numbered from 1
finalizeWorkingFile_OneBased(file) ==
    IF file = NoFile \/ file.binary THEN <<>>
    ELSE LET fileId == determineFileId(file) IN
         IF Falsy(fileId) THEN <<>>
         ELSE << [file_id |-> fileId,
                  status |-> file.status,
                  language |-> detectLanguage(fileId),
                  hunks |-> [i \in 1..Len(file.hunks) |->
                                [hunk_id |-> HunkId(fileId, i),
                                 old_start |-> file.hunks[i].oldStart,
                                 new_start |-> file.hunks[i].newStart,
                                 header |-> file.hunks[i].header]]] >>

finalizeWorkingFile(file) ==
    IF file = NoFile \/ file.binary THEN <<>>
    ELSE LET fileId == determineFileId(file) IN
         IF Falsy(fileId) THEN <<>>
         ELSE << [file_id |-> fileId,
                  status |-> file.status,
                  language |-> detectLanguage(fileId),
                  hunks |-> [i \in 1..Len(file.hunks) |->
                                [hunk_id |-> HunkId(fileId, i - 1),
                                 old_start |-> file.hunks[i].oldStart,
                                 new_start |-> file.hunks[i].newStart,
                                 header |-> file.hunks[i].header]]] >>

registerMetaLine(line, file) ==
    IF StartsWith(line, "new file mode") THEN [file EXCEPT !.status = "added"]
    ELSE IF StartsWith(line, "deleted file mode") THEN [file EXCEPT !.status = "deleted"]
    ELSE IF StartsWith(line, "rename from ")
    THEN [file EXCEPT !.status = "renamed",
                      !.oldPath = Coalesce(normalizePath(line.p), file.oldPath)]
    ELSE IF StartsWith(line, "rename to ")
    THEN [file EXCEPT !.status = "renamed",
                      !.newPath = Coalesce(normalizePath(line.p), file.newPath)]
    ELSE IF StartsWith(line, "copy from ")
    THEN [file EXCEPT !.status = "copied",
                      !.oldPath = Coalesce(normalizePath(line.p), file.oldPath)]
    ELSE IF StartsWith(line, "copy to ")
    THEN [file EXCEPT !.status = "copied",
                      !.newPath = Coalesce(normalizePath(line.p), file.newPath)]
    ELSE file

updateFilePathsFromMarker(line, file) ==
    IF StartsWith(line, "--- ")
    THEN LET oldPath == Coalesce(parseFilePathLine(line.p), file.oldPath) IN
         [file EXCEPT !.oldPath = oldPath,
                      !.status = IF Falsy(oldPath) THEN "added" ELSE file.status]
    ELSE IF StartsWith(line, "+++ ")
    THEN LET newPath == Coalesce(parseFilePathLine(line.p), file.newPath) IN
         [file EXCEPT !.newPath = newPath,
                      !.status = IF Falsy(newPath)
                                 THEN (IF file.status = "renamed" THEN file.status
                                       ELSE "deleted")
                                 ELSE file.status]
    ELSE file

\* variant: only the "Binary files " form is recognised
registerBinaryMarker_FilesOnly(line, file) ==
    IF StartsWith(line, "Binary files ")
    THEN [file EXCEPT !.binary = TRUE]
    ELSE file

registerBinaryMarker(line, file) ==
    IF \/ StartsWith(line, "Binary files ")
       \/ StartsWith(line, "Binary file ")
       \/ StartsWith(line, "GIT binary patch")
    THEN [file EXCEPT !.binary = TRUE]
    ELSE file

registerHunk(line, file) ==
    IF ~StartsWith(line, "@@") THEN file
    ELSE LET parsed == parseHunkHeader(line) IN
         IF ~parsed.matched THEN file
         ELSE [file EXCEPT !.hunks = Append(@, [oldStart |-> parsed.oldStart,
                                                 newStart |-> parsed.newStart,
                                                 header |-> line])]

IsMetaLine(line) ==
    \/ StartsWith(line, "new file mode")
    \/ StartsWith(line, "deleted file mode")
    \/ StartsWith(line, "rename from ")
    \/ StartsWith(line, "rename to ")
    \/ StartsWith(line, "copy from ")
    \/ StartsWith(line, "copy to ")

\* the parser's state between two lines
PState(cur, fs) == [currentFile |-> cur, files |-> fs]

flushCurrent(st) == PState(NoFile, st.files \o finalizeWorkingFile(st.currentFile))

\* one iteration of the for loop of parseUnifiedDiff
LoopBody(st, line) ==
    IF StartsWith(line, "diff --git ")
    THEN LET header == parseDiffHeader(line) IN
         PState(IF header.matched THEN createWorkingFile(header) ELSE NoFile,
                flushCurrent(st).files)
    ELSE IF st.currentFile = NoFile THEN st
    ELSE LET marked == registerBinaryMarker(line, st.currentFile) IN
         IF marked.binary THEN PState(marked, st.files)
         ELSE IF StartsWith(line, "@@") THEN PState(registerHunk(line, marked), st.files)
         ELSE IF StartsWith(line, "--- ") \/ StartsWith(line, "+++ ")
         THEN PState(updateFilePathsFromMarker(line, marked), st.files)
         ELSE IF IsMetaLine(line) THEN PState(registerMetaLine(line, marked), st.files)
         ELSE PState(marked, st.files)

RECURSIVE ScanLines(_, _)
ScanLines(st, lines) ==
    IF lines = <<>> THEN st ELSE ScanLines(LoopBody(st, Head(lines)), Tail(lines))

\* the files of the DiffIndex returned for a whole text
parseUnifiedDiff(lines) == flushCurrent(ScanLines(PState(NoFile, <<>>), lines)).files

----------------------------------------------------------------------------
(* lib/diff-index: the texts the parser is run on *)

PathX == <<"src", "x.ts">>
PathY == <<"a", "y.ts">>
PathOld == <<"src", "old name.ts">>
PathNew == <<"src", "new name.ts">>

HeaderX == DiffLine(Tok(FALSE, <<"a">> \o PathX), Tok(FALSE, <<"b">> \o PathX))
HeaderY == DiffLine(Tok(FALSE, <<"a">> \o PathY), Tok(FALSE, <<"b">> \o PathY))
HeaderRename == DiffLine(Tok(TRUE, <<"a">> \o PathOld), Tok(TRUE, <<"b">> \o PathNew))
\* the same header without quotes: DIFF_HEADER_REGEX does not match it
HeaderUnparsed == DiffLine(Tok(FALSE, <<"a">> \o PathOld), Tok(FALSE, <<"b">> \o PathNew))

BinaryMarkers ==
    {PlainLine("Binary files "), PlainLine("Binary file "), PlainLine("GIT binary patch")}

\* "similarity index 100%", "index 1a2b..3c4d", context and content lines
OtherLine == PlainLine("")

\* the lines of the texts explored for blocks, hunks and binary markers
BlockLines ==
    {HeaderX, HeaderY, HeaderUnparsed,
     HunkLine(1, 1), HunkLine(12, 14), BadHunkLine,
     MarkerLine("rename to ", Tok(FALSE, PathNew)),
     OtherLine}
    \cup BinaryMarkers

MaxMarkerLines == 4

PathOther == <<"lib", "util.ts">>
PathCopy == <<"src", "latest.ts">>

OldMarker(segs) == MarkerLine("--- ", Tok(FALSE, segs))
NewMarker(segs) == MarkerLine("+++ ", Tok(FALSE, segs))

\* the lines of the texts explored for paths and statuses
MarkerLines ==
    {HeaderX, HeaderY, HunkLine(1, 1),
     MarkerLine("rename from ", Tok(FALSE, PathOld)),
     MarkerLine("rename to ", Tok(FALSE, PathNew)),
     MarkerLine("copy to ", Tok(FALSE, PathCopy)),
     OldMarker(<<"a">> \o PathX), NewMarker(<<"b">> \o PathOther),
     OldMarker(DevNull), NewMarker(DevNull),
     PlainLine("new file mode"), PlainLine("deleted file mode")}

----------------------------------------------------------------------------
(* lib/diff-index: parseUnifiedDiff as a state machine, one line per step *)

InitParser ==
    /\ ppc = "scan"
    /\ consumed = <<>>
    /\ currentFile = NoFile
    /\ files = <<>>

\* one iteration of `for (const line of lines)`
ParseLine(line) ==
    /\ ppc = "scan"
    /\ Len(consumed) < MaxLines
    /\ LET st == LoopBody(PState(currentFile, files), line) IN
         /\ currentFile' = st.currentFile
         /\ files' = st.files
    /\ consumed' = Append(consumed, line)
    /\ UNCHANGED <<ppc, hvars, lvars, xvars>>

\* the end of the text: the final flushCurrent() and the return
ParseEnd ==
    /\ ppc = "scan"
    /\ LET st == flushCurrent(PState(currentFile, files)) IN
         /\ currentFile' = st.currentFile
         /\ files' = st.files
    /\ ppc' = "done"
    /\ UNCHANGED <<consumed, hvars, lvars, xvars>>

ParseBlockLine == \E line \in BlockLines : ParseLine(line)

ParseMarkerLine ==
    \E line \in MarkerLines : Len(consumed) < MaxMarkerLines /\ ParseLine(line)

----------------------------------------------------------------------------
(* lib/heuristic-steps: string facts of the segment vocabulary *)

\* segment.toLowerCase()
Lower(seg) ==
    CASE seg = "README.md" -> "readme.md"
      [] seg = "Button.tsx" -> "button.tsx"
      [] seg = "Docs" -> "docs"
      [] OTHER -> seg

\* lower-case segments in which the keyword occurs as a substring
SegmentsContaining(keyword) ==
    CASE keyword = "readme" -> {"readme.md"}
      [] keyword = "changelog" -> {}
      [] keyword = "__tests__" -> {"__tests__"}
      [] keyword = "spec" -> {}
      [] keyword = "test" -> {"__tests__", "u.test.ts", "latest.ts"}
      [] keyword = "fixture" -> {}
      [] OTHER -> {}

\* lower.includes(keyword), for a keyword without "/"
PathIncludes(path, keyword) ==
    \E i \in 1..Len(path) : Lower(path[i]) \in SegmentsContaining(keyword)

\* lower.includes("/" + dir + "/")
PathIncludesDir(path, dir) ==
    \E i \in 2..(Len(path) - 1) : Lower(path[i]) = dir

\* lower.startsWith(dir + "/")
PathStartsWithDir(path, dir) == Len(path) >= 2 /\ Lower(path[1]) = dir

\* lower.includes(dir + "/"): a segment ending in dir, followed by a slash
PathIncludesDirSuffix(path, dir) ==
    \E i \in 1..(Len(path) - 1) : Lower(path[i]) = dir

\* the collation order of the grouping keys the vocabulary can produce
KeyCollation ==
    << <<"config">>, <<"docs">>, <<"feature:", "(root)">>, <<"feature:", "a">>,
       <<"feature:", "app">>, <<"feature:", "lib">>, <<"feature:", "old">>,
       <<"feature:", "src">>, <<"misc">>, <<"tests">> >>

KeyRank(key) == CHOOSE i \in 1..Len(KeyCollation) : KeyCollation[i] = key

\* a.localeCompare(b): negative, zero or positive
localeCompare(a, b) == KeyRank(a) - KeyRank(b)

\* segment.replaceAll(/[-_]/g, " ") with its first letter in upper case
Capitalized(seg) ==
    CASE seg = "a" -> "A"
      [] seg = "app" -> "App"
      [] seg = "lib" -> "Lib"
      [] seg = "old" -> "Old"
      [] OTHER -> seg

\* prTitle.trim()
Trim(text) ==
    CASE text = "   " -> ""
      [] text = " Add button " -> "Add button"
      [] OTHER -> text

Undefined == "<undefined>"

----------------------------------------------------------------------------
(* lib/heuristic-steps: constants *)

DOC_EXTENSIONS == {"md", "mdx", "rst", "adoc", "txt"}
TEST_KEYWORDS == <<"__tests__", "spec", "test", "fixture">>
CONFIG_EXTENSIONS == {"json", "yml", "yaml", "toml", "ini", "conf", "config"}
CONFIG_FILENAMES ==
    {"package.json", "pnpm-lock.yaml", "tsconfig.json", "eslint.config.mjs", ".eslintrc",
     ".eslintrc.json", ".eslintrc.js", "vite.config.ts", "vitest.config.mts",
     "next.config.ts"}

STATUS_VERBS(status) ==
    CASE status = "added" -> "added"
      [] status = "deleted" -> "removed"
      [] status = "modified" -> "updated"
      [] status = "renamed" -> "renamed"
      [] status = "copied" -> "copied"

CATEGORY_SORT_ORDER(category) ==
    CASE category = "docs" -> 0
      [] category = "tests" -> 1
      [] category = "config" -> 2
      [] category = "feature" -> 3
      [] category = "misc" -> 4

MaxGroups == 6
PrimaryGroups == 5
MaxSteps == 6

\* (file.language ?? "").toLowerCase(); languages of the vocabulary are lower case
LanguageLower(file) == IF file.language = NullLanguage THEN "" ELSE file.language

----------------------------------------------------------------------------
(* lib/heuristic-steps: classification and merging *)

isDocumentationFile(file) ==
    \/ LanguageLower(file) \in DOC_EXTENSIONS
    \/ PathIncludesDir(file.file_id, "docs")
    \/ PathStartsWithDir(file.file_id, "docs")
    \/ PathIncludes(file.file_id, "readme")
    \/ PathIncludes(file.file_id, "changelog")

isTestFile(file) ==
    \E k \in 1..Len(TEST_KEYWORDS) : PathIncludes(file.file_id, TEST_KEYWORDS[k])

isConfigFile(file) ==
    \/ LanguageLower(file) \in CONFIG_EXTENSIONS
    \/ Last(file.file_id) \in CONFIG_FILENAMES
    \/ PathIncludesDir(file.file_id, "config")
    \/ PathStartsWithDir(file.file_id, "config")
    \/ PathIncludesDirSuffix(file.file_id, ".github")

Group(key, category, topSegment, fs) ==
    [key |-> key, category |-> category, topSegment |-> topSegment, files |-> fs]

\* variant: the config rule is tested before the tests rule
analyzeFile_ConfigBeforeTests(file) ==
    IF isDocumentationFile(file) THEN Group(<<"docs">>, "docs", Undefined, <<file>>)
    ELSE IF isConfigFile(file) THEN Group(<<"config">>, "config", Undefined, <<file>>)
    ELSE IF isTestFile(file) THEN Group(<<"tests">>, "tests", Undefined, <<file>>)
    ELSE LET topSegment == IF Len(file.file_id) > 1 THEN file.file_id[1] ELSE "(root)" IN
         Group(<<"feature:", topSegment>>, "feature", topSegment, <<file>>)

analyzeFile(file) ==
    IF isDocumentationFile(file) THEN Group(<<"docs">>, "docs", Undefined, <<file>>)
    ELSE IF isTestFile(file) THEN Group(<<"tests">>, "tests", Undefined, <<file>>)
    ELSE IF isConfigFile(file) THEN Group(<<"config">>, "config", Undefined, <<file>>)
    ELSE LET topSegment == IF Len(file.file_id) > 1 THEN file.file_id[1] ELSE "(root)" IN
         Group(<<"feature:", topSegment>>, "feature", topSegment, <<file>>)

\* merged.set(context.key, ...): a Map keeps the position of the first insertion
\* variant: the files of a later context replace those merged so far
MapSet_KeepsLatest(merged, context) ==
    IF \E i \in 1..Len(merged) : merged[i].key = context.key
    THEN [i \in 1..Len(merged) |->
            IF merged[i].key = context.key
            THEN [merged[i] EXCEPT !.files = context.files]
            ELSE merged[i]]
    ELSE Append(merged, context)

MapSet(merged, context) ==
    IF \E i \in 1..Len(merged) : merged[i].key = context.key
    THEN [i \in 1..Len(merged) |->
            IF merged[i].key = context.key
            THEN [merged[i] EXCEPT !.files = @ \o context.files]
            ELSE merged[i]]
    ELSE Append(merged, context)

RECURSIVE MergeInto(_, _)
MergeInto(merged, contexts) ==
    IF contexts = <<>> THEN merged
    ELSE MergeInto(MapSet(merged, Head(contexts)), Tail(contexts))

mergeGroupContexts(contexts) == MergeInto(<<>>, contexts)

----------------------------------------------------------------------------
(* lib/heuristic-steps: capping and sorting *)

RECURSIVE SumHunks(_)
SumHunks(fs) == IF fs = <<>> THEN 0 ELSE Len(Head(fs).hunks) + SumHunks(Tail(fs))

Weight(group) == SumHunks(group.files)

\* Array.prototype.sort is stable: an element goes after every element that does
\* not compare greater than it
RECURSIVE InsertSorted(_, _, _)
InsertSorted(Cmp(_, _), sorted, x) ==
    IF sorted = <<>> THEN <<x>>
    ELSE IF Cmp(Head(sorted), x) <= 0
         THEN <<Head(sorted)>> \o InsertSorted(Cmp, Tail(sorted), x)
         ELSE <<x>> \o sorted

RECURSIVE StableSortInto(_, _, _)
StableSortInto(Cmp(_, _), sorted, rest) ==
    IF rest = <<>> THEN sorted
    ELSE StableSortInto(Cmp, InsertSorted(Cmp, sorted, Head(rest)), Tail(rest))

StableSort(Cmp(_, _), s) == StableSortInto(Cmp, <<>>, s)

\* variant: the groups with the most files stay separate
CompareWeight_ByFileCount(a, b) == Len(b.files) - Len(a.files)

CompareWeight(a, b) == Weight(b) - Weight(a)

GroupFiles(group) == group.files

\* variant: the cap applies only above seven groups
limitGroupCount_AboveSeven(groups) ==
    IF Len(groups) <= MaxGroups + 1 THEN groups
    ELSE LET sorted == StableSort(CompareWeight, groups)
             primary == SubSeq(sorted, 1, PrimaryGroups)
             remaining == SubSeq(sorted, PrimaryGroups + 1, Len(sorted))
             merged == Group(<<"misc">>, "misc", Undefined, FlatMap(GroupFiles, remaining))
         IN Append(primary, merged)

limitGroupCount(groups) ==
    IF Len(groups) <= MaxGroups THEN groups
    ELSE LET sorted == StableSort(CompareWeight, groups)
             primary == SubSeq(sorted, 1, PrimaryGroups)
             remaining == SubSeq(sorted, PrimaryGroups + 1, Len(sorted))
             merged == Group(<<"misc">>, "misc", Undefined, FlatMap(GroupFiles, remaining))
         IN Append(primary, merged)

CompareGroups(a, b) ==
    LET categoryOrder == CATEGORY_SORT_ORDER(a.category) - CATEGORY_SORT_ORDER(b.category)
        byFileCount == Len(b.files) - Len(a.files)
    IN IF categoryOrder # 0 THEN categoryOrder
       ELSE IF byFileCount # 0 THEN byFileCount
       ELSE localeCompare(a.key, b.key)

\* variant: the groups keep the order in which capping left them
sortGroups_Unsorted(groups) == groups

sortGroups(groups) == StableSort(CompareGroups, groups)

----------------------------------------------------------------------------
(* lib/heuristic-steps: step synthesis *)

FileIdOf(file) == file.file_id

summarizeFiles(fs) ==
    LET fileIds == [i \in 1..Len(fs) |-> fs[i].file_id] IN
    IF Len(fileIds) = 1 THEN <<fileIds[1]>>
    ELSE IF Len(fileIds) = 2 THEN <<fileIds[1], " and ", fileIds[2]>>
    ELSE <<fileIds[1], ", ", fileIds[2], " +", Len(fileIds) - 2, " more">>

\* Array.from(new Set(values)): the first occurrence of each value, in order
RECURSIVE UniqueInto(_, _)
UniqueInto(seen, rest) ==
    IF rest = <<>> THEN seen
    ELSE UniqueInto(IF Head(rest) \in Range(seen) THEN seen ELSE Append(seen, Head(rest)),
                    Tail(rest))

Unique(values) == UniqueInto(<<>>, values)

\* parts.join(separator)
RECURSIVE Join(_, _)
Join(parts, separator) ==
    IF parts = <<>> THEN <<>>
    ELSE IF Len(parts) = 1 THEN <<parts[1]>>
    ELSE <<parts[1], separator>> \o Join(Tail(parts), separator)

summarizeStatuses(fs) ==
    LET unique == Unique([i \in 1..Len(fs) |-> STATUS_VERBS(fs[i].status)]) IN
    IF Len(unique) = 0 THEN <<"updated">>
    ELSE IF Len(unique) = 1 THEN <<unique[1]>>
    ELSE Join(SubSeq(unique, 1, Len(unique) - 1), ", ") \o <<" and ", Last(unique)>>

humanizeSegment(segment) ==
    IF segment = Undefined \/ segment = "" \/ segment = "(root)" THEN "root files"
    ELSE IF segment = "src" THEN "source code"
    ELSE Capitalized(segment)

Descriptor(title, description, objective, priority, notes, badges) ==
    [title |-> title, description |-> description, objective |-> objective,
     priority |-> priority, notes |-> notes, badges |-> badges]

describeFeatureGroup(group) ==
    LET label == humanizeSegment(group.topSegment) IN
    Descriptor(<<"Review ", label, " changes">>,
               <<"Focus on ", summarizeStatuses(group.files), " files: ",
                 summarizeFiles(group.files), ".">>,
               <<"Exercise the affected ", label,
                 " paths to ensure behavior stays correct.">>,
               "high",
               <<"Probe the main flows these files touch for regressions.">>,
               <<"Code">>)

describeDocsGroup(group) ==
    Descriptor(<<"Review documentation updates">>,
               <<"Confirm documentation reflects the latest behavior in ",
                 summarizeFiles(group.files), ".">>,
               <<"Check for accuracy, clarity, and formatting issues in the updated docs.">>,
               "low",
               <<"Look for outdated references or typos.">>,
               <<"Docs">>)

describeTestsGroup(group) ==
    Descriptor(<<"Review test coverage adjustments">>,
               <<"Review the updated test coverage across ",
                 summarizeFiles(group.files), ".">>,
               <<"Ensure tests cover the intended scenarios and still pass.">>,
               "medium",
               <<"Verify that assertions align with the new behavior.">>,
               <<"Tests">>)

describeConfigGroup(group) ==
    Descriptor(<<"Review configuration updates">>,
               <<"Inspect configuration tweaks within ", summarizeFiles(group.files), ".">>,
               <<"Ensure configuration loads correctly locally and in CI.">>,
               "medium",
               <<"Validate that defaults and environment-specific values remain correct.">>,
               <<"Config">>)

describeMiscGroup(group) ==
    Descriptor(<<"Review consolidated updates">>,
               <<"Sweep through the remaining updates: ", summarizeFiles(group.files), ".">>,
               <<"Spot-check these smaller changes for unintended side effects.">>,
               "medium",
               <<"Scan for inconsistencies that the heuristics bundled together.">>,
               <<"Mixed">>)

describeGroup(group) ==
    CASE group.category = "docs" -> describeDocsGroup(group)
      [] group.category = "tests" -> describeTestsGroup(group)
      [] group.category = "config" -> describeConfigGroup(group)
      [] group.category = "misc" -> describeMiscGroup(group)
      [] OTHER -> describeFeatureGroup(group)

\* variant: every reference lists the hunks of the first file of the group
toDiffRefs_FirstFileHunks(fs) ==
    [i \in 1..Len(fs) |->
        [file_id |-> fs[i].file_id,
         hunk_ids |-> [j \in 1..Len(fs[1].hunks) |-> fs[1].hunks[j].hunk_id]]]

toDiffRefs(fs) ==
    [i \in 1..Len(fs) |->
        [file_id |-> fs[i].file_id,
         hunk_ids |-> [j \in 1..Len(fs[i].hunks) |-> fs[i].hunks[j].hunk_id]]]

HasCategory(groups, category) == \E i \in 1..Len(groups) : groups[i].category = category

aggregateAcceptanceChecks(groups) ==
    LET checks ==
          (IF HasCategory(groups, "tests")
           THEN <<"Run pnpm test to confirm coverage remains green.">> ELSE <<>>)
          \o (IF HasCategory(groups, "docs")
              THEN <<"Proofread updated documentation for accuracy and formatting.">>
              ELSE <<>>)
          \o (IF HasCategory(groups, "config")
              THEN <<"Validate configuration changes by running pnpm build.">> ELSE <<>>)
          \o (IF HasCategory(groups, "feature")
              THEN <<"Smoke test the impacted flows in the application.">> ELSE <<>>)
    IN IF Len(checks) = 0 THEN <<"Confirm the diff renders as expected.">> ELSE checks

aggregateRiskCalls(groups) ==
    LET risks ==
          (IF HasCategory(groups, "feature")
           THEN <<"Logic changes could introduce regressions in the touched modules.">>
           ELSE <<>>)
          \o (IF HasCategory(groups, "config")
              THEN <<"Configuration adjustments could impact build or deployment pipelines.">>
              ELSE <<>>)
          \o (IF HasCategory(groups, "tests")
              THEN <<"Test changes might conceal gaps in coverage if not verified carefully.">>
              ELSE <<>>)
          \o (IF HasCategory(groups, "docs")
              THEN <<"Documentation updates may drift from actual behavior if review misses nuances.">>
              ELSE <<>>)
    IN IF Len(risks) = 0
       THEN <<"Heuristic grouping may have missed contextual dependencies.">>
       ELSE risks

StepId(index) == <<"step-", index>>

buildSteps(groups) ==
    [index \in 1..Len(groups) |->
        LET descriptor == describeGroup(groups[index]) IN
        [step_id |-> StepId(index),
         title |-> descriptor.title,
         description |-> descriptor.description,
         objective |-> descriptor.objective,
         priority |-> descriptor.priority,
         diff_refs |-> toDiffRefs(groups[index].files),
         notes_suggested |-> descriptor.notes,
         badges |-> descriptor.badges]]

AreaLabel(category) ==
    CASE category = "docs" -> "documentation"
      [] category = "tests" -> "tests"
      [] category = "config" -> "configuration"
      [] category = "feature" -> "code"
      [] category = "misc" -> "mixed updates"

\* options: [diffIndex, prTitle, prDescription]
\* variant: the summary quotes the pull request description when one is given
buildOverview_QuotesDescription(groups, options) ==
    LET fileCount == Len(options.diffIndex)
        areaLabels == Unique([i \in 1..Len(groups) |-> AreaLabel(groups[i].category)])
        overviewTitle ==
            IF options.prTitle # Undefined /\ options.prTitle # ""
               /\ Trim(options.prTitle) # ""
            THEN <<"Heuristic walkthrough for: ", Trim(options.prTitle)>>
            ELSE <<"Heuristic walkthrough across ", fileCount, " file",
                   IF fileCount = 1 THEN "" ELSE "s">>
        focusAreas ==
            IF Len(areaLabels) > 0 THEN Join(areaLabels, ", ")
            ELSE <<"general diff inspection">>
    IN [title |-> overviewTitle,
        summary |-> <<"This heuristic baseline groups the diff into ", Len(groups),
                      " review step", IF Len(groups) = 1 THEN "" ELSE "s",
                      " covering ", focusAreas, ".", options.prDescription>>]

buildOverview(groups, options) ==
    LET fileCount == Len(options.diffIndex)
        areaLabels == Unique([i \in 1..Len(groups) |-> AreaLabel(groups[i].category)])
        overviewTitle ==
            IF options.prTitle # Undefined /\ options.prTitle # ""
               /\ Trim(options.prTitle) # ""
            THEN <<"Heuristic walkthrough for: ", Trim(options.prTitle)>>
            ELSE <<"Heuristic walkthrough across ", fileCount, " file",
                   IF fileCount = 1 THEN "" ELSE "s">>
        focusAreas ==
            IF Len(areaLabels) > 0 THEN Join(areaLabels, ", ")
            ELSE <<"general diff inspection">>
    IN [title |-> overviewTitle,
        summary |-> <<"This heuristic baseline groups the diff into ", Len(groups),
                      " review step", IF Len(groups) = 1 THEN "" ELSE "s",
                      " covering ", focusAreas, ".">>]

----------------------------------------------------------------------------
(* lib/review-plan-schema *)

PRIORITY_VALUES == {"high", "medium", "low"}

\* z.string().min(1), for a text held as a tuple of parts and for a plain string
NonEmpty(text) == text # <<>>
NonEmptyString(text) == text # ""

DiffReferenceSchema(ref) ==
    /\ NonEmpty(ref.file_id)
    /\ Len(ref.hunk_ids) >= 1
    /\ \A j \in 1..Len(ref.hunk_ids) : NonEmpty(ref.hunk_ids[j])

ReviewStepSchema(step) ==
    /\ NonEmpty(step.step_id)
    /\ NonEmpty(step.title)
    /\ NonEmpty(step.description)
    /\ NonEmpty(step.objective)
    /\ step.priority \in PRIORITY_VALUES
    /\ Len(step.diff_refs) >= 1
    /\ \A i \in 1..Len(step.diff_refs) : DiffReferenceSchema(step.diff_refs[i])
    /\ \A i \in 1..Len(step.notes_suggested) : NonEmptyString(step.notes_suggested[i])
    /\ \A i \in 1..Len(step.badges) : NonEmptyString(step.badges[i])

\* whether ReviewPlanSchema.parse(value) returns (TRUE) or throws a ZodError (FALSE)
ReviewPlanSchema(value) ==
    /\ value.version = 1
    /\ NonEmpty(value.pr_overview.title)
    /\ NonEmpty(value.pr_overview.summary)
    /\ Len(value.steps) <= MaxSteps
    /\ \A i \in 1..Len(value.steps) : ReviewStepSchema(value.steps[i])
    /\ \A i \in 1..Len(value.end_state.acceptance_checks) :
          NonEmptyString(value.end_state.acceptance_checks[i])
    /\ \A i \in 1..Len(value.end_state.risk_calls) :
          NonEmptyString(value.end_state.risk_calls[i])

Plan(overview, steps, checks, risks) ==
    [version |-> 1, pr_overview |-> overview, steps |-> steps,
     end_state |-> [acceptance_checks |-> checks, risk_calls |-> risks]]

\* the value of a call that did not return a plan
NoPlan == [version |-> 0, pr_overview |-> [title |-> <<>>, summary |-> <<>>],
           steps |-> <<>>,
           end_state |-> [acceptance_checks |-> <<>>, risk_calls |-> <<>>]]

\* the outcome of a call whose ReviewPlanSchema.parse threw
ZodErrorThrown == [NoPlan EXCEPT !.version = -1]

----------------------------------------------------------------------------
(* lib/heuristic-steps: buildHeuristicReviewPlan *)

HasHunks(file) == Len(file.hunks) > 0

Options(diffIndex, prTitle, prDescription) ==
    [diffIndex |-> diffIndex, prTitle |-> prTitle, prDescription |-> prDescription]

emptyPlan ==
    Plan([title |-> <<"No diff content detected">>,
          summary |-> <<"The supplied diff did not contain any reviewable hunks.">>],
         <<>>,
         <<"Confirm the pull request exposes code or documentation changes.">>,
         <<"Empty diffs may indicate fetch or permissions issues.">>)

\* the groups the steps are built from
sortedGroupsOf(diffIndex) ==
    LET filesWithHunks == SelectSeq(diffIndex, HasHunks)
        contexts == [i \in 1..Len(filesWithHunks) |-> analyzeFile(filesWithHunks[i])]
        mergedGroups == mergeGroupContexts(contexts)
        cappedGroups == limitGroupCount(mergedGroups)
    IN sortGroups(cappedGroups)

\* variant: the empty plan is returned only for an index without files
buildHeuristicReviewPlan_EmptyIndexOnly(options) ==
    IF Len(options.diffIndex) = 0
    THEN (IF ReviewPlanSchema(emptyPlan) THEN emptyPlan ELSE ZodErrorThrown)
    ELSE LET sortedGroups == sortedGroupsOf(options.diffIndex)
             built == Plan(buildOverview(sortedGroups, options),
                           buildSteps(sortedGroups),
                           aggregateAcceptanceChecks(sortedGroups),
                           aggregateRiskCalls(sortedGroups))
         IN IF ReviewPlanSchema(built) THEN built ELSE ZodErrorThrown

buildHeuristicReviewPlan(options) ==
    LET filesWithHunks == SelectSeq(options.diffIndex, HasHunks) IN
    IF Len(filesWithHunks) = 0
    THEN (IF ReviewPlanSchema(emptyPlan) THEN emptyPlan ELSE ZodErrorThrown)
    ELSE LET sortedGroups == sortedGroupsOf(options.diffIndex)
             built == Plan(buildOverview(sortedGroups, options),
                           buildSteps(sortedGroups),
                           aggregateAcceptanceChecks(sortedGroups),
                           aggregateRiskCalls(sortedGroups))
         IN IF ReviewPlanSchema(built) THEN built ELSE ZodErrorThrown

----------------------------------------------------------------------------
(* lib/heuristic-steps: the indexes the engine is run on *)

MaxIndexFiles == 8

\* a DiffFileEntry as the parser or a validated request supplies it
Entry(path, status, hunkCount) ==
    [file_id |-> path,
     status |-> status,
     language |-> detectLanguage(path),
     hunks |-> [i \in 1..hunkCount |->
                  [hunk_id |-> HunkId(path, i - 1), old_start |-> i, new_start |-> i,
                   header |-> HunkLine(i, i)]]]

\* the files an index is assembled from; the ninth has no hunks
FileUniverse ==
    << Entry(<<"docs", "guide.md">>, "modified", 1),
       Entry(<<"src", "__tests__", "u.test.ts">>, "added", 2),
       Entry(<<"package.json">>, "modified", 1),
       Entry(<<"app", "page.tsx">>, "modified", 2),
       Entry(<<"src", "Button.tsx">>, "modified", 1),
       Entry(<<"lib", "util.ts">>, "deleted", 3),
       Entry(<<"main.ts">>, "modified", 1),
       Entry(<<"app", "layout.tsx">>, "renamed", 1),
       Entry(<<"old", "gone.ts">>, "modified", 0),
       Entry(<<"a", "y.ts">>, "copied", 2) >>

Reverse(s) == [i \in 1..Len(s) |-> s[Len(s) + 1 - i]]
Rotate(s, k) == [i \in 1..Len(s) |-> s[((i + k - 1) % Len(s)) + 1]]

\* the orders in which the files may appear in an index: the rotations of the
\* universe and of its reverse
IndexOrders ==
    {Rotate(FileUniverse, k) : k \in 0..(Len(FileUniverse) - 1)}
    \cup {Rotate(Reverse(FileUniverse), k) : k \in 0..(Len(FileUniverse) - 1)}

PositionIn(order, file) == CHOOSE i \in 1..Len(order) : order[i] = file

\* the files of index appear in order, in the same relative order
IsSubsequence(index, order) ==
    \A i \in 1..Len(index) : \A j \in 1..Len(index) :
        i < j => PositionIn(order, index[i]) < PositionIn(order, index[j])

MaxOverlapFiles == 3

\* files on which the classification rules overlap, and files matching one or none
OverlapFiles ==
    {Entry(<<"__tests__", "README.md">>, "modified", 1),
     Entry(<<"docs", "package.json">>, "modified", 1),
     Entry(<<"docs", "__tests__", "ci.yml">>, "added", 1),
     Entry(<<"__tests__", "ci.yml">>, "modified", 2),
     Entry(<<".github", "ci.yml">>, "modified", 1),
     Entry(<<"src", "x.ts">>, "modified", 1),
     Entry(<<"main.ts">>, "modified", 1)}

Titles == {Undefined, "   ", "Add button"}
Descriptions == {Undefined, "Adds styles"}

----------------------------------------------------------------------------
(* lib/heuristic-steps: calls of buildHeuristicReviewPlan *)

InitHeuristic ==
    /\ hpc = "index"
    /\ hIndex = <<>>
    /\ hTitle = Undefined
    /\ hDescs = <<>>
    /\ plan = NoPlan
    /\ prevPlan = NoPlan

\* the caller puts one more file into the index it will pass
AddFile(file) ==
    /\ hpc = "index"
    /\ Len(hIndex) < MaxIndexFiles
    /\ file \notin Range(hIndex)
    /\ \E order \in IndexOrders : IsSubsequence(Append(hIndex, file), order)
    /\ hIndex' = Append(hIndex, file)
    /\ UNCHANGED <<hpc, hTitle, hDescs, plan, prevPlan, pvars, lvars, xvars>>

\* the caller puts a file of the overlap set into the index, in any order
AddOverlapFile(file) ==
    /\ hpc = "index"
    /\ Len(hIndex) < MaxOverlapFiles
    /\ file \notin Range(hIndex)
    /\ hIndex' = Append(hIndex, file)
    /\ UNCHANGED <<hpc, hTitle, hDescs, plan, prevPlan, pvars, lvars, xvars>>

\* buildHeuristicReviewPlan({ diffIndex, prTitle, prDescription })
BuildPlan(prTitle, prDescription) ==
    /\ hpc = "index"
    /\ hTitle' = prTitle
    /\ hDescs' = Append(hDescs, prDescription)
    /\ plan' = buildHeuristicReviewPlan(Options(hIndex, prTitle, prDescription))
    /\ prevPlan' = plan
    /\ hpc' = "built"
    /\ UNCHANGED <<hIndex, pvars, lvars, xvars>>

\* a second call on the same index and title
BuildPlanAgain(prDescription) ==
    /\ hpc = "built"
    /\ hDescs' = Append(hDescs, prDescription)
    /\ plan' = buildHeuristicReviewPlan(Options(hIndex, hTitle, prDescription))
    /\ prevPlan' = plan
    /\ hpc' = "rebuilt"
    /\ UNCHANGED <<hIndex, hTitle, pvars, lvars, xvars>>

AddAnyOverlapFile == \E file \in OverlapFiles : AddOverlapFile(file)
AddAnyFile == \E file \in Range(FileUniverse) : AddFile(file)
BuildAnyPlan == \E prTitle \in Titles, prDescription \in Descriptions :
                    BuildPlan(prTitle, prDescription)
BuildAnyPlanAgain == \E prDescription \in Descriptions : BuildPlanAgain(prDescription)

----------------------------------------------------------------------------
(* lib/llm-steps: values *)

MAX_ATTEMPTS == 3
MAX_FILES_IN_PROMPT == 24
MAX_HUNKS_PER_FILE_IN_PROMPT == 6
MaxAttemptsInput == 4

\* an error object: its class, where it was created and by which attempt
ErrorObject(class, origin, id) == [class |-> class, origin |-> origin, id |-> id]
NoError == ErrorObject("<null>", "<null>", 0)

\* the maxAttempts option: left out, NaN, or an integer
AttemptsOption(given, nan, value) == [given |-> given, nan |-> nan, value |-> value]
AttemptsOptions ==
    {AttemptsOption(FALSE, FALSE, 0), AttemptsOption(TRUE, TRUE, 0)}
    \cup {AttemptsOption(TRUE, FALSE, v) : v \in -1..MaxAttemptsInput}

\* what the caller of buildLlmReviewPlan resolved with: the plan and the object it is
Returned(from, value) == [from |-> from, value |-> value]
NoReturn == Returned("<none>", NoPlan)

\* what one generate() invocation did: resolved with { object } or threw
Resolved(object) == [kind |-> "object", object |-> object, error |-> NoError]
Threw(error) == [kind |-> "throw", object |-> NoPlan, error |-> error]

----------------------------------------------------------------------------
(* lib/llm-steps: the retry loop *)

Max(a, b) == IF a >= b THEN a ELSE b

\* `maxAttempts = MAX_ATTEMPTS` in the parameter list
\* variant: one attempt more than the option asks for
maxAttemptsOf_OneMore(option) ==
    IF option.given THEN [option EXCEPT !.value = @ + 1]
    ELSE AttemptsOption(TRUE, FALSE, MAX_ATTEMPTS + 1)

maxAttemptsOf(option) == IF option.given THEN option ELSE AttemptsOption(TRUE, FALSE, MAX_ATTEMPTS)

\* attempt < Math.max(1, maxAttempts); Math.max of NaN is NaN and no number is below NaN
LoopContinues(att, option) ==
    LET m == maxAttemptsOf(option) IN
    IF m.nan THEN FALSE ELSE att < Max(1, m.value)

\* variant: only a ZodError counts as a schema mismatch
isSchemaMismatchError_ZodOnly(error) == error.class = "ZodError"

isSchemaMismatchError(error) ==
    IF error.class = "ZodError" THEN TRUE
    ELSE error.class = "NoObjectGeneratedError"

\* attempt < Math.max(1, maxAttempts) - 1
AttemptsRemain(att, option) ==
    LET m == maxAttemptsOf(option) IN
    IF m.nan THEN FALSE ELSE att < Max(1, m.value) - 1

\* variant: any error is retried while attempts remain
shouldRetry_AnyError(error, att, option) == AttemptsRemain(att, option)

shouldRetry(error, att, option) == isSchemaMismatchError(error) /\ AttemptsRemain(att, option)

\* what the try block of one attempt ends with, given what generate() did:
\* the returned plan, or the error that reaches the catch clause
TryBlock(outcome, att) ==
    IF outcome.kind = "throw" THEN [ok |-> FALSE, value |-> NoPlan, error |-> outcome.error]
    ELSE IF ReviewPlanSchema(outcome.object)
    THEN [ok |-> TRUE, value |-> outcome.object, error |-> NoError]
    ELSE [ok |-> FALSE, value |-> NoPlan, error |-> ErrorObject("ZodError", "parse", att + 1)]

\* the statements after the loop
AfterLoop(lastErr) ==
    IF lastErr.class \in {"ZodError", "NoObjectGeneratedError", "Error"} THEN lastErr
    ELSE ErrorObject("Error", "after-loop", 0)

\* referencePlan = baselinePlan ?? buildHeuristicReviewPlan(...)
referencePlanOf(req) ==
    IF req.baselinePlan # NoPlan THEN req.baselinePlan
    ELSE buildHeuristicReviewPlan(Options(req.diffIndex, req.prTitle, Undefined))

\* hunks.slice(0, limit), files.slice(0, limit)
Slice(s, limit) == SubSeq(s, 1, IF Len(s) < limit THEN Len(s) ELSE limit)

\* a line of the hunk summary of a file
HunkSummaryLine(kind, hunk_id, header, omitted) ==
    [kind |-> kind, hunk_id |-> hunk_id, header |-> header, omitted |-> omitted]

\* "    - (no parsed hunks)", or a line "    - <hunk_id>: <header>" for each of the
\* first hunks and "    - ... +N more hunks omitted." for the rest
summariseHunks(hunks) ==
    IF Len(hunks) = 0
    THEN <<HunkSummaryLine("(no parsed hunks)", <<>>, <<>>, 0)>>
    ELSE LET limitedHunks == Slice(hunks, MAX_HUNKS_PER_FILE_IN_PROMPT)
             lines == [i \in 1..Len(limitedHunks) |->
                         HunkSummaryLine("hunk", limitedHunks[i].hunk_id,
                                         limitedHunks[i].header, 0)]
         IN IF Len(hunks) > Len(limitedHunks)
            THEN Append(lines, HunkSummaryLine("more hunks omitted", <<>>, <<>>,
                                               Len(hunks) - Len(limitedHunks)))
            ELSE lines

\* an entry of the diff summary
FileSummary(kind, file, hunkSummary, omitted) ==
    [kind |-> kind, file_id |-> file.file_id, status |-> file.status,
     language |-> file.language, hunkSummary |-> hunkSummary, omitted |-> omitted]
NoSummarisedFile == [file_id |-> <<>>, status |-> "", language |-> ""]

\* "(no diff files)", or "- file_id: <id> [status: <status>, lang: <language>]" with
\* its hunk summary for each of the first files and "- ... +N more files omitted for
\* brevity." for the rest
summariseDiffIndex(diffIndex) ==
    IF Len(diffIndex) = 0
    THEN <<FileSummary("(no diff files)", NoSummarisedFile, <<>>, 0)>>
    ELSE LET limitedFiles == Slice(diffIndex, MAX_FILES_IN_PROMPT)
             fileSummaries == [i \in 1..Len(limitedFiles) |->
                                 FileSummary("file", limitedFiles[i],
                                             summariseHunks(limitedFiles[i].hunks), 0)]
         IN IF Len(diffIndex) > Len(limitedFiles)
            THEN Append(fileSummaries,
                        FileSummary("more files omitted", NoSummarisedFile, <<>>,
                                    Len(diffIndex) - Len(limitedFiles)))
            ELSE fileSummaries

\* a line "- <step_id>: <title> -> <file_id> [<hunk ids>]; ..." for each step
summariseBaselinePlan(basePlan) ==
    IF Len(basePlan.steps) = 0
    THEN <<[step_id |-> <<>>,
            title |-> <<"Heuristic planner found no review steps (likely because the diff was empty).">>,
            refs |-> <<>>]>>
    ELSE [i \in 1..Len(basePlan.steps) |->
            [step_id |-> basePlan.steps[i].step_id,
             title |-> basePlan.steps[i].title,
             refs |-> [r \in 1..Len(basePlan.steps[i].diff_refs) |->
                         [file_id |-> basePlan.steps[i].diff_refs[r].file_id,
                          hunk_ids |-> basePlan.steps[i].diff_refs[r].hunk_ids]]]]

\* the sections of the prompt; the instruction block is a fixed text
buildPrompt(diffIndex, prTitle, baselinePlan) ==
    [header |-> IF prTitle # Undefined /\ prTitle # ""
                THEN <<"Pull request title: ", prTitle>>
                ELSE <<"Pull request title: (not provided)">>,
     diffSummary |-> summariseDiffIndex(diffIndex),
     heuristicSummary |-> summariseBaselinePlan(baselinePlan),
     instructions |-> <<"Requirements:">>]
NoPrompt == [header |-> <<>>, diffSummary |-> <<>>, heuristicSummary |-> <<>>,
             instructions |-> <<>>]

----------------------------------------------------------------------------
(* app/api/group/route *)

Response(status, mode, body, error) ==
    [status |-> status, mode |-> mode, body |-> body, error |-> error]
NoResponse == Response(0, "<none>", NoReturn, "<none>")

errorResponse(message, status) == Response(status, "<none>", NoReturn, message)

successResponse(llmPlan, mode) == Response(200, mode, llmPlan, "<none>")

\* the catch clause of POST
\* variant: the catch clause falls back to the heuristic plan
failureResponse_Fallback(heuristicPlan, error) ==
    successResponse(Returned("baseline", heuristicPlan), "heuristic")

failureResponse(heuristicPlan, error) ==
    Response(502, "llm-error", NoReturn, "LLM grouping failed. Try again later.")

emptyIndexResponse == Response(400, "llm-error", NoReturn, "No reviewable diff content.")

DiffHunkSchema(hunk) ==
    /\ NonEmpty(hunk.hunk_id)
    /\ hunk.old_start >= 0
    /\ hunk.new_start >= 0

DiffFileEntrySchema(file) ==
    /\ NonEmpty(file.file_id)
    /\ file.status \in {"added", "deleted", "modified", "renamed", "copied"}
    /\ file.language # ""
    /\ Len(file.hunks) >= 1
    /\ \A i \in 1..Len(file.hunks) : DiffHunkSchema(file.hunks[i])

DiffIndexSchema(index) == \A i \in 1..Len(index) : DiffFileEntrySchema(index[i])

\* a request body: whether it is JSON at all, and the diffIndex and title it carries
Payload(json, diffIndex, prTitle) == [json |-> json, diffIndex |-> diffIndex, prTitle |-> prTitle]

\* GroupingRequestSchema.safeParse(payload).success
GroupingRequestSchema(payload) == DiffIndexSchema(payload.diffIndex)

----------------------------------------------------------------------------
(* lib/llm-steps and the route: the calls explored *)

Request(caller, diffIndex, prTitle, baselinePlan, maxAttempts) ==
    [caller |-> caller, diffIndex |-> diffIndex, prTitle |-> prTitle,
     baselinePlan |-> baselinePlan, maxAttempts |-> maxAttempts]
NoRequest == Request("<none>", <<>>, Undefined, NoPlan, AttemptsOption(FALSE, FALSE, 0))

LlmIndexes ==
    {<<>>,
     <<FileUniverse[5]>>,
     <<FileUniverse[9]>>,
     <<FileUniverse[1], FileUniverse[4]>>}

\* the BASELINE_PLAN a direct caller may supply
SuppliedBaseline ==
    Plan([title |-> <<"Baseline review">>,
          summary |-> <<"Heuristic summary acting as a baseline.">>],
         buildSteps(<<analyzeFile(FileUniverse[5])>>),
         <<"Run pnpm test to ensure UI snapshots remain aligned.">>,
         <<"Updated styling could regress button visibility states.">>)

DirectRequests ==
    {Request("direct", index, Undefined, baseline, option) :
        index \in LlmIndexes, baseline \in {NoPlan, SuppliedBaseline},
        option \in AttemptsOptions}

Payloads ==
    {Payload(FALSE, <<>>, Undefined)}
    \cup {Payload(TRUE, index, title) : index \in LlmIndexes, title \in {Undefined, "Add button"}}

\* objects the model may answer with, for a call on diffIndex with reference plan ref
GeneratedObjects(diffIndex, ref) ==
    LET steps == buildSteps(sortedGroupsOf(diffIndex))
        foreign == buildSteps(<<analyzeFile(FileUniverse[6])>>)
    IN {\* a plan of its own over the ids of the index
        [ref EXCEPT !.pr_overview.title = <<"LLM-enhanced review">>, !.steps = steps],
        \* the reference plan, repeated
        ref,
        \* seven steps
        [ref EXCEPT !.steps = foreign \o foreign \o foreign \o foreign \o foreign
                                 \o foreign \o foreign],
        \* a step without diff references
        [ref EXCEPT !.steps = <<[foreign[1] EXCEPT !.diff_refs = <<>>]>>],
        \* a well-formed plan over ids the index does not hold
        [ref EXCEPT !.steps = foreign],
        \* a plan whose end state lists nothing
        [ref EXCEPT !.steps = steps,
                    !.end_state = [acceptance_checks |-> <<>>, risk_calls |-> <<>>]]}

GenerateOutcomes(req, att) ==
    {Resolved(object) : object \in GeneratedObjects(req.diffIndex, referencePlanOf(req))}
    \cup {Threw(ErrorObject(class, "generate", att + 1)) :
            class \in {"ZodError", "NoObjectGeneratedError", "Error", "String"}}

----------------------------------------------------------------------------
(* lib/llm-steps and the route as a state machine; the call is suspended only *)
(* at `await generate(...)`                                                    *)

InitLlm ==
    /\ lpc = "idle"
    /\ lReq = NoRequest
    /\ prompt = NoPrompt
    /\ attempt = 0
    /\ lastError = NoError
    /\ outcomes = <<>>
    /\ lResult = NoReturn
    /\ lThrown = NoError
    /\ response = NoResponse

\* the route's continuation once its await of buildLlmReviewPlan settles
RouteSettled(req, pc, result, thrown) ==
    IF req.caller # "route" THEN NoResponse
    ELSE IF pc = "returned" THEN successResponse(result, "llm")
    ELSE IF pc = "rejected" THEN failureResponse(req.baselinePlan, thrown)
    ELSE NoResponse

\* buildLlmReviewPlan from its first statement to its first await, return or throw
\* variant: an index without files is sent to the generator like any other
EnterCall_NoEmptyCheck(req) ==
    /\ lReq' = req
    /\ prompt' = buildPrompt(req.diffIndex, req.prTitle, referencePlanOf(req))
    /\ attempt' = 0
    /\ lastError' = NoError
    /\ outcomes' = <<>>
    /\ IF LoopContinues(0, req.maxAttempts)
       THEN /\ lpc' = "awaiting"
            /\ lResult' = NoReturn
            /\ lThrown' = NoError
       ELSE /\ lpc' = "rejected"
            /\ lResult' = NoReturn
            /\ lThrown' = AfterLoop(NoError)
    /\ response' = RouteSettled(req, lpc', lResult', lThrown')

EnterCall(req) ==
    /\ lReq' = req
    /\ prompt' = IF Len(req.diffIndex) = 0 THEN NoPrompt
                 ELSE buildPrompt(req.diffIndex, req.prTitle, referencePlanOf(req))
    /\ attempt' = 0
    /\ lastError' = NoError
    /\ outcomes' = <<>>
    /\ IF Len(req.diffIndex) = 0
       THEN /\ lpc' = "returned"
            /\ lResult' = Returned("baseline", referencePlanOf(req))
            /\ lThrown' = NoError
       ELSE IF LoopContinues(0, req.maxAttempts)
       THEN /\ lpc' = "awaiting"
            /\ lResult' = NoReturn
            /\ lThrown' = NoError
       ELSE /\ lpc' = "rejected"
            /\ lResult' = NoReturn
            /\ lThrown' = AfterLoop(NoError)
    /\ response' = RouteSettled(req, lpc', lResult', lThrown')

\* a direct call of buildLlmReviewPlan
LlmCall(req) ==
    /\ lpc = "idle"
    /\ response = NoResponse
    /\ EnterCall(req)
    /\ UNCHANGED <<pvars, hvars, xvars>>

\* the pending generate() settles; the call runs on to its next await or its end
GenerateSettles(outcome) ==
    /\ lpc = "awaiting"
    /\ outcomes' = Append(outcomes, outcome)
    /\ LET try == TryBlock(outcome, attempt) IN
       IF try.ok
       THEN /\ lpc' = "returned"
            /\ lResult' = Returned("generate", try.value)
            /\ UNCHANGED <<attempt, lastError, lThrown>>
       ELSE /\ lastError' = try.error
            /\ lResult' = NoReturn
            /\ IF ~shouldRetry(try.error, attempt, lReq.maxAttempts)
               THEN /\ lpc' = "rejected"
                    /\ lThrown' = try.error
                    /\ UNCHANGED attempt
               ELSE /\ attempt' = attempt + 1
                    /\ IF LoopContinues(attempt + 1, lReq.maxAttempts)
                       THEN lpc' = "awaiting" /\ lThrown' = NoError
                       ELSE lpc' = "rejected" /\ lThrown' = AfterLoop(try.error)
    /\ response' = RouteSettled(lReq, lpc', lResult', lThrown')
    /\ UNCHANGED <<lReq, prompt, pvars, hvars, xvars>>

\* POST /api/group up to its response or its await of buildLlmReviewPlan
RoutePost(payload) ==
    /\ lpc = "idle"
    /\ response = NoResponse
    /\ IF ~payload.json
       THEN /\ response' = errorResponse("Request body must be valid JSON.", 400)
            /\ UNCHANGED <<lpc, lReq, prompt, attempt, lastError, outcomes, lResult,
                           lThrown>>
       ELSE IF ~GroupingRequestSchema(payload)
       THEN /\ response' = errorResponse("diffIndex: invalid", 400)
            /\ UNCHANGED <<lpc, lReq, prompt, attempt, lastError, outcomes, lResult,
                           lThrown>>
       ELSE LET heuristicPlan ==
                    buildHeuristicReviewPlan(Options(payload.diffIndex, payload.prTitle,
                                                     Undefined))
            IN IF Len(payload.diffIndex) = 0
               THEN /\ response' = emptyIndexResponse
                    /\ UNCHANGED <<lpc, lReq, prompt, attempt, lastError, outcomes,
                                   lResult, lThrown>>
               ELSE EnterCall(Request("route", payload.diffIndex, payload.prTitle,
                                      heuristicPlan, AttemptsOption(FALSE, FALSE, 0)))
    /\ UNCHANGED <<pvars, hvars, xvars>>

MaxPromptFiles == 26
PromptHunkCounts == {0, 1, 6, 7, 9}
PromptTitles == {Undefined, "Add button"}

\* src/x.ts, src/src/x.ts, ...: the path of the n-th file of a long index
PromptPath(n) == [i \in 1..(n + 1) |-> IF i <= n THEN "src" ELSE "x.ts"]

\* the caller appends a file to a long index whose files have equally many hunks
GrowPromptIndex(hunkCount) ==
    /\ lpc = "idle"
    /\ hpc = "index"
    /\ Len(hIndex) < MaxPromptFiles
    /\ \A i \in 1..Len(hIndex) : Len(hIndex[i].hunks) = hunkCount
    /\ hIndex' = Append(hIndex, Entry(PromptPath(Len(hIndex) + 1), "modified", hunkCount))
    /\ UNCHANGED <<hpc, hTitle, hDescs, plan, prevPlan, pvars, lvars, xvars>>

\* buildLlmReviewPlan({ diffIndex, metadata: { prTitle } }) on the long index
PromptCall(prTitle) ==
    LlmCall(Request("direct", hIndex, prTitle, NoPlan, AttemptsOption(FALSE, FALSE, 0)))

GrowAnyPromptIndex == \E hunkCount \in PromptHunkCounts : GrowPromptIndex(hunkCount)
AnyPromptCall == \E prTitle \in PromptTitles : PromptCall(prTitle)

AnyLlmCall == \E req \in DirectRequests : LlmCall(req)
AnyGenerateSettles == \E outcome \in GenerateOutcomes(lReq, attempt) : GenerateSettles(outcome)
AnyRoutePost == \E payload \in Payloads : RoutePost(payload)

----------------------------------------------------------------------------
(* lib/pr-url: values                                                        *)
(*                                                                           *)
(* A URL text is the record of its parts: surrounding white space, scheme    *)
(* ("" when the text has no "scheme://"), host and path segments.  A path    *)
(* segment is a stem followed by `gits` copies of ".git".                    *)

Seg(stem, gits) == [stem |-> stem, gits |-> gits]
UrlText(pad, scheme, host, segs) == [pad |-> pad, scheme |-> scheme, host |-> host, segs |-> segs]
EmptyText == UrlText(FALSE, "", "", <<>>)
BlankText == UrlText(TRUE, "", "", <<>>)

LongOwner == "ooooooooooooooooooooooooooooooooooooooooo"
HugeNumber == "9007199254740993"

\* stem.length
StemLength(stem) ==
    CASE stem = "" -> 0
      [] stem \in {"0", "7"} -> 1
      [] stem \in {"42", "r1"} -> 2
      [] stem \in {"007", "bar", "abc"} -> 3
      [] stem = "pull" -> 4
      [] stem = "files" -> 5
      [] stem \in {"vercel", "my_org", "issues"} -> 6
      [] stem = "next.js" -> 7
      [] stem = HugeNumber -> 16
      [] stem = LongOwner -> 41

\* /^[A-Za-z0-9-]*$/.test(stem)
StemIsOwnerChars(stem) == stem \notin {"my_org", "next.js"}

\* /^[A-Za-z0-9_.-]*$/.test(stem)
StemIsRepoChars(stem) == TRUE

\* /^\d+$/.test(stem)
StemIsDigits(stem) == stem \in {"0", "7", "42", "007", HugeNumber}

\* a number above Number.MAX_SAFE_INTEGER
BeyondSafe == -1

\* Number(stem) for a stem of digits
NumberOf(stem) ==
    CASE stem = "0" -> 0
      [] stem = "42" -> 42
      [] stem \in {"7", "007"} -> 7
      [] stem = HugeNumber -> BeyondSafe

\* `${n}` for a safe integer
NumberText(n) ==
    CASE n = 0 -> "0"
      [] n = 7 -> "7"
      [] n = 42 -> "42"

\* hostname.toLowerCase(), protocol.toLowerCase() without its colon
LowerCase(text) ==
    CASE text = "GitHub.com" -> "github.com"
      [] text = "HTTPS" -> "https"
      [] OTHER -> text

ParseOk(value) == [ok |-> TRUE, value |-> value, error |-> ""]
NoValue == [owner |-> Seg("", 0), repo |-> Seg("", 0), prNumber |-> 0,
            htmlUrl |-> EmptyText, diffUrl |-> <<EmptyText, "">>]
ParseError(error) == [ok |-> FALSE, value |-> NoValue, error |-> error]
NoResult == ParseError("<none>")

----------------------------------------------------------------------------
(* lib/pr-url: parseGitHubPrUrl *)

\* segment.length
SegLength(seg) == StemLength(seg.stem) + 4 * seg.gits

\* segment.replace(/\.git$/, "")
StripGit(seg) == IF seg.gits > 0 THEN Seg(seg.stem, seg.gits - 1) ELSE seg

\* the first issue of PullRequestPathSchema, or "" when the object is valid
PullRequestPathSchema(owner, repo, pullSegment, prNumber) ==
    IF SegLength(owner) < 1 THEN "Repository owner is missing."
    ELSE IF SegLength(owner) > 39 THEN "Repository owner looks too long."
    ELSE IF ~(StemIsOwnerChars(owner.stem) /\ owner.gits = 0)
    THEN "Repository owner can only include letters, numbers, and hyphens."
    ELSE IF SegLength(repo) < 1 THEN "Repository name is missing."
    ELSE IF SegLength(repo) > 100 THEN "Repository name looks too long."
    ELSE IF ~StemIsRepoChars(repo.stem)
    THEN "Repository name can only include letters, numbers, dots, underscores, and hyphens."
    ELSE IF pullSegment # Seg("pull", 0)
    THEN "URL must point to a pull request, e.g. github.com/owner/repo/pull/123."
    ELSE IF ~(StemIsDigits(prNumber.stem) /\ prNumber.gits = 0)
    THEN "Pull request number must be numeric."
    ELSE IF ~(NumberOf(prNumber.stem) = BeyondSafe \/ NumberOf(prNumber.stem) > 0)
    THEN "Pull request number must be greater than zero."
    ELSE ""

parseGitHubPrUrl(rawInput) ==
    LET input == [rawInput EXCEPT !.pad = FALSE]
        hydratedInput == IF input.scheme # "" THEN input
                         ELSE [input EXCEPT !.scheme = "https"]
        protocol == LowerCase(hydratedInput.scheme)
        hostname == LowerCase(hydratedInput.host)
        pathSegments == hydratedInput.segs
    IN IF input = EmptyText THEN ParseError("Enter a GitHub pull request URL.")
       ELSE IF hydratedInput.host = ""
       THEN ParseError("Enter a valid URL, e.g. https://github.com/org/repo/pull/123.")
       ELSE IF protocol # "https" /\ protocol # "http"
       THEN ParseError("Only http(s) URLs are supported.")
       ELSE IF hostname # "www.github.com" /\ hostname # "github.com"
       THEN ParseError("Only public github.com pull requests are supported right now.")
       ELSE IF Len(pathSegments) < 4
       THEN ParseError("URL must look like github.com/owner/repo/pull/123.")
       ELSE LET owner == pathSegments[1]
                repo == StripGit(pathSegments[2])
                issue == PullRequestPathSchema(owner, repo, pathSegments[3], pathSegments[4])
                prNumberInt == NumberOf(pathSegments[4].stem)
                canonical == UrlText(FALSE, "https", "github.com",
                                     <<owner, repo, Seg("pull", 0),
                                       Seg(NumberText(prNumberInt), 0)>>)
            IN IF issue # "" THEN ParseError(issue)
               ELSE IF prNumberInt = BeyondSafe
               THEN ParseError("Pull request number is out of range.")
               ELSE ParseOk([owner |-> owner, repo |-> repo, prNumber |-> prNumberInt,
                             htmlUrl |-> canonical, diffUrl |-> <<canonical, ".diff">>])

----------------------------------------------------------------------------
(* lib/pr-url: the texts parsed *)

Pads == BOOLEAN
Schemes == {"", "https", "HTTPS", "http", "ftp"}
Hosts == {"github.com", "www.github.com", "GitHub.com", "gitlab.com"}
Owners == {Seg("vercel", 0), Seg("my_org", 0), Seg(LongOwner, 0)}
Repos == {Seg("next.js", 0), Seg("bar", 1), Seg("bar", 2), Seg("", 1), Seg("", 2)}
PullSegments == {Seg("pull", 0), Seg("issues", 0)}
PrNumbers == {Seg("42", 0), Seg("007", 0), Seg("0", 0), Seg("abc", 0), Seg(HugeNumber, 0)}
Paths ==
    {<<o, r, p, n>> : o \in Owners, r \in Repos, p \in PullSegments, n \in PrNumbers}
    \cup {<<Seg("vercel", 0), r, Seg("pull", 0), Seg("42", 0), Seg("files", 0)>> : r \in Repos}
    \cup {<<>>, <<Seg("vercel", 0), Seg("next.js", 0), Seg("pull", 0)>>}

UrlTexts ==
    {EmptyText, BlankText, UrlText(FALSE, "https", "", <<>>)}
    \cup {UrlText(pad, scheme, host, segs) :
            pad \in Pads, scheme \in Schemes, host \in Hosts, segs \in Paths}

InitUrl ==
    /\ upc = "input"
    /\ urlInput = EmptyText
    /\ firstParse = NoResult
    /\ secondParse = NoResult

\* parseGitHubPrUrl(rawInput)
ParseUrl(text) ==
    /\ upc = "input"
    /\ urlInput' = text
    /\ firstParse' = parseGitHubPrUrl(text)
    /\ upc' = "parsed"
    /\ UNCHANGED <<secondParse, pvars, hvars, lvars, dvars, svars>>

\* parseGitHubPrUrl(firstParse.value.htmlUrl), as the diff route does with the htmlUrl
\* validatePrAction hands over
ReparseUrl ==
    /\ upc = "parsed"
    /\ firstParse.ok
    /\ secondParse' = parseGitHubPrUrl(firstParse.value.htmlUrl)
    /\ upc' = "reparsed"
    /\ UNCHANGED <<urlInput, firstParse, pvars, hvars, lvars, dvars, svars>>

ParseAnyUrl == \E text \in UrlTexts : ParseUrl(text)

----------------------------------------------------------------------------
(* app/api/diff/route: values *)

MAX_DIFF_BYTES == 1048576

\* searchParams.get("prUrl") when the parameter is missing
NoParam == UrlText(FALSE, "<null>", "", <<>>)

\* headers.get(name) when the header is missing
NullHeader == "<null>"

\* Number(headerLength): finite or not, and its value when finite
ToNumber(text) ==
    CASE text = "" -> [finite |-> TRUE, value |-> 0]
      [] text = "1024" -> [finite |-> TRUE, value |-> 1024]
      [] text = "1048576" -> [finite |-> TRUE, value |-> 1048576]
      [] text = "1048577" -> [finite |-> TRUE, value |-> 1048577]
      [] text = "2097152" -> [finite |-> TRUE, value |-> 2097152]
      [] text \in {"abc", "Infinity"} -> [finite |-> FALSE, value |-> 0]

\* an upstream body: its length in bytes, whether it starts with a byte order mark,
\* and the number of bytes that are not part of a well-formed UTF-8 sequence
Body(bytes, bom, invalid) == [bytes |-> bytes, bom |-> bom, invalid |-> invalid]
NoBody == Body(0, FALSE, 0)

\* a decoded text: the body it was decoded from and the length of its UTF-8 encoding
Text(of, utf8) == [of |-> of, utf8 |-> utf8]
NoText == Text(NoBody, -1)

\* response.text(): the byte order mark is dropped, every invalid byte becomes U+FFFD
DecodeBody(body) ==
    Text(body, body.bytes - (IF body.bom THEN 3 ELSE 0) + 2 * body.invalid)

\* new TextEncoder().encode(text).length
EncodedLength(text) == text.utf8

GithubResponse(status, remaining, contentLength, body) ==
    [status |-> status, remaining |-> remaining, contentLength |-> contentLength,
     body |-> body]
NoGithubResponse == GithubResponse(0, NullHeader, NullHeader, NoBody)

\* response.ok
IsOk(upstream) == upstream.status >= 200 /\ upstream.status <= 299

DiffResponse(status, error, body) == [status |-> status, error |-> error, body |-> body]
NoDiffResponse == DiffResponse(0, "", NoText)
diffErrorResponse(message, status) == DiffResponse(status, message, NoText)

NoBytes == -1

----------------------------------------------------------------------------
(* app/api/diff/route: GET *)

\* variant: every 403 is taken for an exhausted rate limit
isRateLimitResponse_Any403(upstream) ==
    IF upstream.status = 429 THEN TRUE
    ELSE IF upstream.status = 403 THEN TRUE
    ELSE FALSE

isRateLimitResponse(upstream) ==
    IF upstream.status = 429 THEN TRUE
    ELSE IF upstream.status = 403 /\ upstream.remaining = "0" THEN TRUE
    ELSE FALSE

\* variant: only the content-length header is consulted
exceedsSizeLimit_HeaderOnly(headerLength, actualBytes) ==
    IF headerLength = NullHeader \/ headerLength = "" THEN FALSE
    ELSE ToNumber(headerLength).finite /\ ToNumber(headerLength).value > MAX_DIFF_BYTES

exceedsSizeLimit(headerLength, actualBytes) ==
    IF actualBytes # NoBytes /\ actualBytes > MAX_DIFF_BYTES THEN TRUE
    ELSE IF headerLength = NullHeader \/ headerLength = "" THEN FALSE
    ELSE ToNumber(headerLength).finite /\ ToNumber(headerLength).value > MAX_DIFF_BYTES

TooLarge ==
    diffErrorResponse("Diff is too large to analyze right now. Please try a smaller pull request.",
                      413)

\* GET up to its upstream or its await of fetch
DiffGet(rawPrUrl) ==
    /\ dpc = "idle"
    /\ dRawPrUrl' = rawPrUrl
    /\ IF rawPrUrl = NoParam \/ rawPrUrl = EmptyText
       THEN /\ diffResponse' = diffErrorResponse("Enter a GitHub pull request URL.", 400)
            /\ dpc' = "done"
            /\ UNCHANGED diffUrl
       ELSE LET result == parseGitHubPrUrl(rawPrUrl) IN
            IF ~result.ok
            THEN /\ diffResponse' = diffErrorResponse(result.error, 400)
                 /\ dpc' = "done"
                 /\ UNCHANGED diffUrl
            ELSE /\ diffUrl' = result.value.diffUrl
                 /\ dpc' = "fetching"
                 /\ UNCHANGED diffResponse
    /\ UNCHANGED <<githubResponse, diffText, pvars, hvars, lvars, uvars, svars>>

\* fetch(diffUrl) rejects
FetchThrows ==
    /\ dpc = "fetching"
    /\ diffResponse' =
          diffErrorResponse("Unable to reach GitHub. Check your connection and try again.", 502)
    /\ dpc' = "done"
    /\ UNCHANGED <<dRawPrUrl, diffUrl, githubResponse, diffText, pvars, hvars, lvars, uvars, svars>>

\* fetch(diffUrl) resolves; GET runs on to its upstream or its await of text()
FetchResolves(upstream) ==
    /\ dpc = "fetching"
    /\ githubResponse' = upstream
    /\ IF isRateLimitResponse(upstream)
       THEN /\ diffResponse' =
                  diffErrorResponse("GitHub rate limit reached. Please wait a minute and try again.",
                                    429)
            /\ dpc' = "done"
       ELSE IF upstream.status = 404
       THEN /\ diffResponse' =
                  diffErrorResponse("Pull request diff not found. Ensure the PR is public.", 404)
            /\ dpc' = "done"
       ELSE IF ~IsOk(upstream)
       THEN /\ diffResponse' =
                  diffErrorResponse("GitHub returned an unexpected error. Please try again later.",
                                    502)
            /\ dpc' = "done"
       ELSE IF exceedsSizeLimit(upstream.contentLength, NoBytes)
       THEN /\ diffResponse' = TooLarge
            /\ dpc' = "done"
       ELSE /\ dpc' = "reading"
            /\ UNCHANGED diffResponse
    /\ UNCHANGED <<dRawPrUrl, diffUrl, diffText, pvars, hvars, lvars, uvars, svars>>

\* githubResponse.text() resolves; GET runs on to its upstream
TextResolves ==
    /\ dpc = "reading"
    /\ diffText' = DecodeBody(githubResponse.body)
    /\ LET diffBytes == EncodedLength(diffText') IN
       IF exceedsSizeLimit(githubResponse.contentLength, diffBytes)
       THEN diffResponse' = TooLarge
       ELSE diffResponse' = DiffResponse(200, "", diffText')
    /\ dpc' = "done"
    /\ UNCHANGED <<dRawPrUrl, diffUrl, githubResponse, pvars, hvars, lvars, uvars, svars>>

\* githubResponse.text() rejects, and GET with it
TextRejects ==
    /\ dpc = "reading"
    /\ dpc' = "rejected"
    /\ UNCHANGED <<dRawPrUrl, diffUrl, githubResponse, diffText, diffResponse, pvars, hvars,
                   lvars, uvars, svars>>

----------------------------------------------------------------------------
(* app/api/diff/route: the requests and upstream answers explored *)

PrUrls ==
    {NoParam, EmptyText, BlankText,
     UrlText(FALSE, "https", "gitlab.com",
             <<Seg("vercel", 0), Seg("next.js", 0), Seg("pull", 0), Seg("42", 0)>>),
     UrlText(FALSE, "https", "github.com",
             <<Seg("vercel", 0), Seg("next.js", 0), Seg("issues", 0), Seg("42", 0)>>),
     UrlText(FALSE, "https", "github.com",
             <<Seg("vercel", 0), Seg("next.js", 0), Seg("pull", 0), Seg("42", 0)>>)}

Statuses == {200, 204, 304, 403, 404, 429, 500}
RemainingHeaders == {NullHeader, "0", "1"}
ContentLengths == {NullHeader, "", "abc", "Infinity", "1024", "1048576", "1048577", "2097152"}
BodySizes == {0, 1024, MAX_DIFF_BYTES - 2, MAX_DIFF_BYTES, MAX_DIFF_BYTES + 1, MAX_DIFF_BYTES + 3}
Bodies ==
    {Body(bytes, FALSE, invalid) : bytes \in BodySizes, invalid \in {0, 1}}
    \cup {Body(bytes, TRUE, 0) : bytes \in BodySizes \ {0}}

GithubResponses ==
    {GithubResponse(status, remaining, contentLength, body) :
        status \in Statuses, remaining \in RemainingHeaders,
        contentLength \in ContentLengths, body \in Bodies}

InitDiff ==
    /\ dpc = "idle"
    /\ dRawPrUrl = NoParam
    /\ diffUrl = <<EmptyText, "">>
    /\ githubResponse = NoGithubResponse
    /\ diffText = NoText
    /\ diffResponse = NoDiffResponse

AnyDiffGet == \E rawPrUrl \in PrUrls : DiffGet(rawPrUrl)
AnyFetchResolves == \E upstream \in GithubResponses : FetchResolves(upstream)

----------------------------------------------------------------------------
(* app/step-viewer: StepViewer *)

MaxStepCount == 3
MaxViewerOps == 3

\* the initialStepIndex prop: left out, or an integer
StepIndexProp(given, value) == [given |-> given, value |-> value]

Min(a, b) == IF a <= b THEN a ELSE b

\* variant: the index is capped from above only
clampStep_NoFloor(index, stepCount) == Min(index, Max(stepCount - 1, 0))

\* Math.max(0, Math.min(index, Math.max(steps.length - 1, 0)))
clampStep(index, stepCount) == Max(0, Min(index, Max(stepCount - 1, 0)))

\* const currentIndex = steps.length > 0 ? Math.min(activeIndex, steps.length - 1) : -1
currentIndex == IF totalSteps > 0 THEN Min(activeIndex, totalSteps - 1) ELSE -1

Operation(kind, before) == [kind |-> kind, before |-> before]
NoOperation == Operation("none", 0)

InitViewer ==
    /\ vpc = "unmounted"
    /\ totalSteps = 0
    /\ initialStepIndex = StepIndexProp(FALSE, 0)
    /\ activeIndex = 0
    /\ stepChanges = <<>>
    /\ lastOp = NoOperation

\* the first render: useState(0)
Mount(stepCount, initial) ==
    /\ vpc = "unmounted"
    /\ vpc' = "mounted"
    /\ totalSteps' = stepCount
    /\ initialStepIndex' = initial
    /\ activeIndex' = 0
    /\ UNCHANGED <<stepChanges, lastOp, pvars, hvars, lvars, uvars, dvars>>

\* the effect that clamps initialStepIndex, run after the first render
ClampEffect ==
    /\ vpc = "mounted"
    /\ vpc' = "ready"
    /\ activeIndex' = clampStep(IF initialStepIndex.given THEN initialStepIndex.value ELSE 0,
                                totalSteps)
    /\ UNCHANGED <<totalSteps, initialStepIndex, stepChanges, lastOp, pvars, hvars, lvars,
                   uvars, dvars>>

\* handleStepChange(nextIndex), called by the control `kind`
handleStepChange(kind, nextIndex) ==
    /\ vpc = "ready"
    /\ Len(stepChanges) < MaxViewerOps
    /\ activeIndex' = clampStep(nextIndex, totalSteps)
    /\ stepChanges' = Append(stepChanges, clampStep(nextIndex, totalSteps))
    /\ lastOp' = Operation(kind, activeIndex)
    /\ UNCHANGED <<vpc, totalSteps, initialStepIndex, pvars, hvars, lvars, uvars, dvars>>

\* the Previous button, disabled while currentIndex <= 0
ClickPrevious == currentIndex > 0 /\ handleStepChange("previous", currentIndex - 1)

\* the Next button, disabled while currentIndex >= totalSteps - 1
ClickNext == currentIndex < totalSteps - 1 /\ handleStepChange("next", currentIndex + 1)

\* a step button of the rail
ClickRail(index) == index < totalSteps /\ handleStepChange("rail", index)

\* the keyboard shortcuts n and p
KeyNext == handleStepChange("n", activeIndex + 1)
KeyPrevious == handleStepChange("p", activeIndex - 1)

InitialStepIndexes ==
    {StepIndexProp(FALSE, 0)}
    \cup {StepIndexProp(TRUE, value) : value \in (-2)..(MaxStepCount + 1)}

AnyMount == \E stepCount \in 0..MaxStepCount, initial \in InitialStepIndexes :
                Mount(stepCount, initial)
ClickAnyRail == \E index \in 0..(MaxStepCount - 1) : ClickRail(index)

----------------------------------------------------------------------------
(* Specifications *)

Init == InitParser /\ InitHeuristic /\ InitLlm /\ InitUrl /\ InitDiff
        /\ InitViewer

NextParser == ParseBlockLine \/ ParseEnd

NextHeuristic == AddAnyFile \/ BuildAnyPlan \/ BuildAnyPlanAgain

NextLlm == AnyLlmCall \/ AnyGenerateSettles \/ AnyRoutePost

NextMarkers == ParseMarkerLine \/ ParseEnd

NextPrompt == GrowAnyPromptIndex \/ AnyPromptCall

NextUrl == ParseAnyUrl \/ ReparseUrl

NextViewer == AnyMount \/ ClampEffect \/ ClickPrevious \/ ClickNext \/ ClickAnyRail
              \/ KeyNext \/ KeyPrevious

NextDiff == AnyDiffGet \/ FetchThrows \/ AnyFetchResolves \/ TextResolves \/ TextRejects

NextClassify == AddAnyOverlapFile \/ BuildAnyPlan \/ BuildAnyPlanAgain

Next == NextParser \/ NextMarkers \/ NextHeuristic \/ NextClassify \/ NextLlm
        \/ NextPrompt \/ NextUrl \/ NextDiff \/ NextViewer

\* the components are independent; each is explored on its own
Spec == Init /\ [][Next]_vars
SpecParser == Init /\ [][NextParser]_vars
SpecMarkers == Init /\ [][NextMarkers]_vars
SpecHeuristic == Init /\ [][NextHeuristic]_vars
SpecClassify == Init /\ [][NextClassify]_vars
SpecLlm == Init /\ [][NextLlm]_vars
SpecPrompt == Init /\ [][NextPrompt]_vars
SpecUrl == Init /\ [][NextUrl]_vars
SpecDiff == Init /\ [][NextDiff]_vars
SpecViewer == Init /\ [][NextViewer]_vars

----------------------------------------------------------------------------
(* Vocabulary of the properties *)

Called == hpc \in {"built", "rebuilt"}

ReviewableFiles == SelectSeq(hIndex, HasHunks)

\* the heuristic grouping keys the reviewable files of the index fall into
GroupingKeys == {analyzeFile(ReviewableFiles[i]).key : i \in 1..Len(ReviewableFiles)}

MiscTitle == <<"Review consolidated updates">>

\* the text split at its "diff --git " lines; what precedes the first is dropped
RECURSIVE BlocksFrom(_, _)
BlocksFrom(blocks, lines) ==
    IF lines = <<>> THEN blocks
    ELSE IF Head(lines).k = "diff --git "
    THEN BlocksFrom(Append(blocks, <<Head(lines)>>), Tail(lines))
    ELSE IF blocks = <<>> THEN BlocksFrom(blocks, Tail(lines))
    ELSE BlocksFrom([blocks EXCEPT ![Len(blocks)] = Append(@, Head(lines))], Tail(lines))

Blocks(lines) == BlocksFrom(<<>>, lines)

IsBinaryMarker(line) == line.k \in {"Binary files ", "Binary file ", "GIT binary patch"}
IsHunkHeader(line) == line.k = "@@" /\ line.wellFormed

HasBinaryMarker(block) == \E i \in 1..Len(block) : IsBinaryMarker(block[i])
FirstBinaryMarker(block) ==
    CHOOSE i \in 1..Len(block) :
        IsBinaryMarker(block[i]) /\ \A j \in 1..(i - 1) : ~IsBinaryMarker(block[j])

----------------------------------------------------------------------------
\* the number of attempts a call may make
AttemptLimit(option) ==
    IF ~option.given THEN MAX_ATTEMPTS
    ELSE IF option.nan THEN 0
    ELSE IF option.value >= 1 THEN option.value ELSE 1

SchemaMismatchClasses == {"ZodError", "NoObjectGeneratedError"}

\* what an attempt whose generate() settled with `outcome` amounts to
ValidResult(outcome) == outcome.kind = "object" /\ ReviewPlanSchema(outcome.object)
SchemaMismatch(outcome) ==
    \/ outcome.kind = "throw" /\ outcome.error.class \in SchemaMismatchClasses
    \/ outcome.kind = "object" /\ ~ReviewPlanSchema(outcome.object)
OtherFailure(outcome) ==
    outcome.kind = "throw" /\ outcome.error.class \notin SchemaMismatchClasses

\* the error attempt number n failed with
ErrorOfAttempt(outcome, n) ==
    IF outcome.kind = "throw" THEN outcome.error ELSE ErrorObject("ZodError", "parse", n)

InCall == lpc # "idle"

----------------------------------------------------------------------------
(* Properties *)

\* C1: when the reviewable files of the index fall into more than 6 grouping keys,
\* the plan has exactly 6 steps and its last step is the consolidated misc step.
C1_StepCap ==
    (Called /\ Cardinality(GroupingKeys) > 6) =>
        /\ Len(plan.steps) = 6
        /\ plan.steps[6].title = MiscTitle

\* a plan for 8 keys has been built, three of them consolidated
C1_Witness ==
    /\ hpc = "built"
    /\ Cardinality(GroupingKeys) = 8
    /\ Len(plan.steps) = 6
    /\ Len(plan.steps[6].diff_refs) = 3

\* C2: every diff reference of a returned plan names a file of the input index and
\* only hunks of that file, and has at least one hunk id.
C2_ReferenceIntegrity ==
    Called =>
        \A s \in 1..Len(plan.steps) : \A r \in 1..Len(plan.steps[s].diff_refs) :
            LET ref == plan.steps[s].diff_refs[r] IN
            /\ Len(ref.hunk_ids) > 0
            /\ \E f \in 1..Len(hIndex) :
                  /\ hIndex[f].file_id = ref.file_id
                  /\ \A h \in 1..Len(ref.hunk_ids) :
                        \E j \in 1..Len(hIndex[f].hunks) :
                            hIndex[f].hunks[j].hunk_id = ref.hunk_ids[h]

\* a plan with a step of two references, over an index that also holds a file
\* without hunks
C2_Witness ==
    /\ hpc = "built"
    /\ \E f \in 1..Len(hIndex) : ~HasHunks(hIndex[f])
    /\ \E s \in 1..Len(plan.steps) : Len(plan.steps[s].diff_refs) >= 2

\* C3: every entry the parser emits has at least one hunk (a block without a
\* parseable hunk header produces no entry).
C3_NoHunkNoEntry ==
    ppc = "done" => \A i \in 1..Len(files) : Len(files[i].hunks) >= 1

\* the entries a block produces: none when it holds a binary marker
EntriesUnlessBinary(block) == IF HasBinaryMarker(block) THEN <<>> ELSE parseUnifiedDiff(block)

\* C4: a block that holds a binary marker produces no entry, whatever hunk headers
\* precede the marker, and no line after the marker changes the accumulator.
C4_BinaryExcluded ==
    /\ ppc = "done" => files = FlatMap(EntriesUnlessBinary, Blocks(consumed))
    /\ (ppc = "scan" /\ Blocks(consumed) # <<>>) =>
          LET block == Last(Blocks(consumed)) IN
          HasBinaryMarker(block) =>
              /\ finalizeWorkingFile(currentFile) = <<>>
              /\ currentFile =
                    ScanLines(PState(NoFile, <<>>),
                              SubSeq(block, 1, FirstBinaryMarker(block))).currentFile

\* a block with a hunk header before and after its binary marker has been parsed
C4_Witness ==
    /\ ppc = "done"
    /\ files = <<>>
    /\ \E b \in 1..Len(Blocks(consumed)) :
          LET block == Blocks(consumed)[b] IN
          /\ parseDiffHeader(block[1]).matched
          /\ HasBinaryMarker(block)
          /\ \E i \in 1..Len(block) : IsHunkHeader(block[i]) /\ i < FirstBinaryMarker(block)
          /\ \E i \in 1..Len(block) : IsHunkHeader(block[i]) /\ i > FirstBinaryMarker(block)

\* C5: the hunks of an emitted entry are the parseable hunk headers of its block in
\* the order met, with ids <file_id>#h0 .. <file_id>#h(N-1); and the entries of a
\* block are those the block yields when parsed alone.
C5_HunkIds ==
    ppc = "done" =>
        /\ files = FlatMap(parseUnifiedDiff, Blocks(consumed))
        /\ \A b \in 1..Len(Blocks(consumed)) :
              LET block == Blocks(consumed)[b]
                  entries == parseUnifiedDiff(block)
                  headers == SelectSeq(block, IsHunkHeader)
              IN entries # <<>> =>
                    /\ Len(entries) = 1
                    /\ Len(entries[1].hunks) = Len(headers)
                    /\ \A i \in 1..Len(headers) :
                          /\ entries[1].hunks[i].hunk_id = <<entries[1].file_id, "#h", i - 1>>
                          /\ entries[1].hunks[i].header = headers[i]

\* two files, the first with two distinct hunks, the second with one
C5_Witness ==
    /\ ppc = "done"
    /\ Len(files) = 2
    /\ Len(files[1].hunks) = 2
    /\ files[1].hunks[1].header # files[1].hunks[2].header
    /\ Len(files[2].hunks) = 1

\* C6: a call returns a plan; the plan has no steps exactly when no file of the
\* index has a hunk, and then its title is fixed; otherwise it has 1 to 6 steps.
C6_StepCount ==
    Called =>
        /\ plan.version = 1
        /\ Len(plan.steps) = 0 <=> Len(ReviewableFiles) = 0
        /\ Len(ReviewableFiles) = 0 => plan.pr_overview.title = <<"No diff content detected">>
        /\ Len(plan.steps) <= 6

\* a call on an index that holds only a file without hunks
C6_Witness ==
    /\ hpc = "built"
    /\ Len(hIndex) = 1
    /\ Len(ReviewableFiles) = 0
    /\ plan.steps = <<>>

C8_RetryOnSchemaMismatch ==
    (InCall /\ Len(lReq.diffIndex) > 0) =>
        \A i \in 1..Len(outcomes) :
            /\ (SchemaMismatch(outcomes[i]) /\ i < AttemptLimit(lReq.maxAttempts)) =>
                  (Len(outcomes) > i \/ lpc = "awaiting")
            /\ ValidResult(outcomes[i]) =>
                  /\ i = Len(outcomes)
                  /\ lpc = "returned"
                  /\ lResult = Returned("generate", outcomes[i].object)

\* a NoObjectGeneratedError, then an object that fails re-validation, then a valid one
C8_Witness ==
    /\ lpc = "returned"
    /\ Len(outcomes) = 3
    /\ outcomes[1].kind = "throw" /\ outcomes[1].error.class = "NoObjectGeneratedError"
    /\ outcomes[2].kind = "object" /\ ~ReviewPlanSchema(outcomes[2].object)
    /\ ValidResult(outcomes[3])
    /\ lResult.value = outcomes[3].object

\* C9: a failure that is not a schema mismatch is the last invocation of the
\* generator, and the call rejects with that very error object.
C9_OtherErrorRethrown ==
    InCall =>
        \A i \in 1..Len(outcomes) :
            OtherFailure(outcomes[i]) =>
                /\ i = Len(outcomes)
                /\ lpc = "rejected"
                /\ lThrown = outcomes[i].error

\* the second of four attempts threw a plain Error
C9_Witness ==
    /\ lpc = "rejected"
    /\ AttemptLimit(lReq.maxAttempts) = 4
    /\ Len(outcomes) = 2
    /\ SchemaMismatch(outcomes[1])
    /\ outcomes[2].kind = "throw" /\ outcomes[2].error.class = "Error"
    /\ lThrown = outcomes[2].error

\* C10: when all attempts fail with a schema mismatch the call rejects with the
\* error of the last attempt; after a failed attempt the call returns nothing but
\* the validated object of its last attempt; the route answers a rejection with 502
\* and no plan.
C10_ExhaustedRejects ==
    (InCall /\ Len(lReq.diffIndex) > 0) =>
        /\ ( /\ Len(outcomes) >= 1
             /\ Len(outcomes) = AttemptLimit(lReq.maxAttempts)
             /\ \A i \in 1..Len(outcomes) : SchemaMismatch(outcomes[i]) ) =>
               /\ lpc = "rejected"
               /\ lThrown = ErrorOfAttempt(Last(outcomes), Len(outcomes))
        /\ (lpc = "returned" /\ Len(outcomes) >= 1) =>
               /\ ValidResult(Last(outcomes))
               /\ lResult = Returned("generate", Last(outcomes).object)
        /\ lpc = "rejected" => lResult = NoReturn
        /\ (lReq.caller = "route" /\ lpc = "rejected") =>
               /\ response.status = 502
               /\ response.mode = "llm-error"
               /\ response.body = NoReturn

\* the route's three attempts all failed, the last one at re-validation
C10_Witness ==
    /\ lReq.caller = "route"
    /\ lpc = "rejected"
    /\ Len(outcomes) = 3
    /\ \A i \in 1..3 : SchemaMismatch(outcomes[i])
    /\ outcomes[3].kind = "object"
    /\ lThrown = ErrorObject("ZodError", "parse", 3)
    /\ response.status = 502

\* the generate() invocations the call has made so far, the pending one included
Invocations == Len(outcomes) + (IF lpc = "awaiting" THEN 1 ELSE 0)

IntegerAttempts == lReq.maxAttempts.given /\ ~lReq.maxAttempts.nan

\* C11: a call on an index without files returns the baseline plan (the supplied
\* one, else the heuristic plan of that index) and never invokes the generator.
C11_EmptyIndexReturnsBaseline ==
    (InCall /\ Len(lReq.diffIndex) = 0) =>
        /\ lpc = "returned"
        /\ Invocations = 0
        /\ lResult.from = "baseline"
        /\ lResult.value =
              IF lReq.baselinePlan # NoPlan THEN lReq.baselinePlan
              ELSE buildHeuristicReviewPlan(Options(lReq.diffIndex, lReq.prTitle, Undefined))

\* a call with a supplied baseline on an index without files has returned it
C11_Witness ==
    /\ lpc = "returned"
    /\ Len(lReq.diffIndex) = 0
    /\ lReq.baselinePlan = SuppliedBaseline
    /\ lResult = Returned("baseline", SuppliedBaseline)
    /\ outcomes = <<>>

\* C12 as stated: for an integer maxAttempts the generator is invoked at most
\* maxAttempts times.
C12_AtMostMaxAttempts ==
    (InCall /\ IntegerAttempts) => Invocations <= lReq.maxAttempts.value

\* C12: for an integer maxAttempts the generator is invoked at most
\* max(1, maxAttempts) times, and after that many attempts the call has returned
\* or rejected.
C12_AtMostClampedAttempts ==
    (InCall /\ IntegerAttempts) =>
        LET limit == IF lReq.maxAttempts.value > 1 THEN lReq.maxAttempts.value ELSE 1 IN
        /\ Invocations <= limit
        /\ Len(outcomes) = limit => lpc \in {"returned", "rejected"}

\* a call with maxAttempts 0 made one attempt, and one with 4 used all of them
C12_Witness ==
    /\ IntegerAttempts
    /\ Len(lReq.diffIndex) > 0
    /\ lpc = "rejected"
    /\ \/ lReq.maxAttempts.value = 0 /\ Len(outcomes) = 1
       \/ lReq.maxAttempts.value = 4 /\ Len(outcomes) = 4

\* whether every diff reference of a plan names a file of the index and hunks of
\* that file
RefersInto(value, index) ==
    \A s \in 1..Len(value.steps) : \A r \in 1..Len(value.steps[s].diff_refs) :
        LET ref == value.steps[s].diff_refs[r] IN
        \E f \in 1..Len(index) :
            /\ index[f].file_id = ref.file_id
            /\ \A h \in 1..Len(ref.hunk_ids) :
                  \E j \in 1..Len(index[f].hunks) :
                      index[f].hunks[j].hunk_id = ref.hunk_ids[h]

\* C13: a plan the call returns from the generator references only files and hunks
\* of the index of the call.
C13_LlmReferenceIntegrity ==
    (lpc = "returned" /\ lResult.from = "generate") => RefersInto(lResult.value, lReq.diffIndex)

\* C14: a plan returned by buildLlmReviewPlan after schema validation has at least
\* one acceptance check and at least one risk call.
C14_EndStateNonEmpty ==
    (lpc = "returned" /\ lResult.from = "generate") =>
        /\ Len(lResult.value.end_state.acceptance_checks) >= 1
        /\ Len(lResult.value.end_state.risk_calls) >= 1

\* a text of one block with a parsed header and a hunk has been parsed to its end
OneBlockParsed ==
    /\ ppc = "done"
    /\ consumed # <<>>
    /\ Blocks(consumed) = <<consumed>>
    /\ parseDiffHeader(consumed[1]).matched
    /\ \E i \in 1..Len(consumed) : IsHunkHeader(consumed[i])

HasLine(k) == \E i \in 1..Len(consumed) : consumed[i].k = k
HasMarker(line) == \E i \in 1..Len(consumed) : consumed[i] = line

DestinationLines == {"rename to ", "copy to "}
RenameCopyLines == {"rename from ", "rename to ", "copy from ", "copy to "}

\* the path written on the last "rename to" or "copy to" line of the text
LastDestination ==
    LET i == CHOOSE i \in 1..Len(consumed) :
                /\ consumed[i].k \in DestinationLines
                /\ \A j \in (i + 1)..Len(consumed) : consumed[j].k \notin DestinationLines
    IN consumed[i].p.segs

\* C15: the file_id of an emitted renamed or copied file is the path of the
\* "rename to" / "copy to" line of its block, whatever "---" / "+++" lines the
\* block holds.
C15_MetadataPathWins ==
    (OneBlockParsed /\ (\E k \in DestinationLines : HasLine(k))) =>
        \A i \in 1..Len(files) :
            files[i].status \in {"renamed", "copied"} => files[i].file_id = LastDestination

\* C16: without mode and rename/copy lines, "--- /dev/null" makes the entry added,
\* "+++ /dev/null" makes it deleted under its old path, and a block with neither
\* stays modified.
C16_NullDeviceStatus ==
    ( /\ OneBlockParsed
      /\ ~HasLine("new file mode") /\ ~HasLine("deleted file mode")
      /\ \A k \in RenameCopyLines : ~HasLine(k)
      /\ ~(HasMarker(OldMarker(DevNull)) /\ HasMarker(NewMarker(DevNull))) ) =>
        /\ Len(files) = 1
        /\ HasMarker(OldMarker(DevNull)) => files[1].status = "added"
        /\ HasMarker(NewMarker(DevNull)) =>
              /\ files[1].status = "deleted"
              /\ files[1].file_id = Tail(consumed[1].p.segs)
        /\ (~HasMarker(OldMarker(DevNull)) /\ ~HasMarker(NewMarker(DevNull))) =>
              files[1].status = "modified"

\* C17: a block "diff --git a/P b/P" without rename, copy, "---" or "+++" lines
\* naming another path emits the file_id P, with only the a/ b/ marker removed.
C17_FileIdIsHeaderPath ==
    ( /\ OneBlockParsed
      /\ consumed[1].p.segs = <<"a">> \o Tail(consumed[1].p.segs)
      /\ consumed[1].q.segs = <<"b">> \o Tail(consumed[1].p.segs)
      /\ \A k \in RenameCopyLines : ~HasLine(k)
      /\ \A i \in 1..Len(consumed) :
            consumed[i].k \in {"--- ", "+++ "} =>
                \/ consumed[i].p.segs = DevNull
                \/ Tail(consumed[i].p.segs) = Tail(consumed[1].p.segs) ) =>
        /\ Len(files) = 1
        /\ files[1].status \in {"added", "modified", "deleted"}
        /\ files[1].file_id = Tail(consumed[1].p.segs)

\* the file of the index a diff reference names
FileOfRef(ref) == CHOOSE f \in Range(hIndex) : f.file_id = ref.file_id

KeyOfFile(file) == analyzeFile(file).key

\* the grouping key of a step: the key its files share, or misc when they differ
StepKey(step) ==
    LET keys == {KeyOfFile(FileOfRef(step.diff_refs[r])) : r \in 1..Len(step.diff_refs)} IN
    IF Cardinality(keys) = 1 THEN CHOOSE k \in keys : TRUE ELSE <<"misc">>

CategoryRank(key) ==
    CASE key = <<"docs">> -> 0
      [] key = <<"tests">> -> 1
      [] key = <<"config">> -> 2
      [] key = <<"misc">> -> 4
      [] OTHER -> 3

\* whether step a may come right before step b
InStepOrder(a, b) ==
    \/ CategoryRank(StepKey(a)) < CategoryRank(StepKey(b))
    \/ /\ CategoryRank(StepKey(a)) = CategoryRank(StepKey(b))
       /\ \/ Len(a.diff_refs) > Len(b.diff_refs)
          \/ /\ Len(a.diff_refs) = Len(b.diff_refs)
             /\ KeyRank(StepKey(a)) < KeyRank(StepKey(b))

\* C18: the steps come by category rank, then by descending number of files, then
\* by ascending key, the consolidated step included, and are numbered step-1..step-N
\* in that order.
C18_StepOrder ==
    Called =>
        /\ \A i \in 1..(Len(plan.steps) - 1) : InStepOrder(plan.steps[i], plan.steps[i + 1])
        /\ \A i \in 1..Len(plan.steps) : plan.steps[i].step_id = <<"step-", i>>

\* a capped plan whose feature steps are ordered once by file count and once by key,
\* built from an index that lists its files in another order
C18_Witness ==
    /\ hpc = "built"
    /\ Cardinality(GroupingKeys) > 6
    /\ KeyOfFile(hIndex[1]) \notin {<<"docs">>, <<"tests">>, <<"config">>}
    /\ \E i \in 1..(Len(plan.steps) - 1) :
          /\ CategoryRank(StepKey(plan.steps[i])) = 3
          /\ CategoryRank(StepKey(plan.steps[i + 1])) = 3
          /\ Len(plan.steps[i].diff_refs) > Len(plan.steps[i + 1].diff_refs)
    /\ \E i \in 1..(Len(plan.steps) - 1) :
          /\ CategoryRank(StepKey(plan.steps[i])) = 3
          /\ CategoryRank(StepKey(plan.steps[i + 1])) = 3
          /\ Len(plan.steps[i].diff_refs) = Len(plan.steps[i + 1].diff_refs)

\* the grouping key, hunk count and id of each reviewable file, by position
KeyAt == LET rf == ReviewableFiles IN [j \in 1..Len(rf) |-> KeyOfFile(rf[j])]
HunksAt == LET rf == ReviewableFiles IN [j \in 1..Len(rf) |-> Len(rf[j].hunks)]
IdAt == LET rf == ReviewableFiles IN [j \in 1..Len(rf) |-> rf[j].file_id]

PositionsOf(keyAt, key) == {j \in DOMAIN keyAt : keyAt[j] = key}

RECURSIVE HunkTotal(_, _)
HunkTotal(hunksAt, positions) ==
    IF positions = {} THEN 0
    ELSE LET i == CHOOSE i \in positions : TRUE IN
         hunksAt[i] + HunkTotal(hunksAt, positions \ {i})

FirstPosition(positions) == CHOOSE i \in positions : \A j \in positions : i <= j

\* the hunk total and the first position of each grouping key
TotalOf(keyAt, hunksAt) ==
    [k \in Range(keyAt) |-> HunkTotal(hunksAt, PositionsOf(keyAt, k))]
FirstOf(keyAt) == [k \in Range(keyAt) |-> FirstPosition(PositionsOf(keyAt, k))]

\* the keys that stay steps of their own when the groups are capped: those that
\* fewer than five keys outrank, a key outranking another when it has more hunks,
\* or as many and its first file comes earlier in the index
KeptKeys(total, first) ==
    LET Outranks(a, b) ==
            \/ total[a] > total[b]
            \/ total[a] = total[b] /\ first[a] < first[b]
    IN {k \in DOMAIN total : Cardinality({o \in DOMAIN total : Outranks(o, k)}) < 5}

RefIds(step) == {step.diff_refs[r].file_id : r \in 1..Len(step.diff_refs)}

\* C19: with more than 6 groups, the five groups of greatest hunk total (ties going
\* to the group met first in the index) are the steps before the misc step, each
\* with exactly its own files, and the misc step references exactly the files of
\* all other groups.
C19_HeaviestFiveKept ==
    (Called /\ Cardinality(GroupingKeys) > 6) =>
        LET keyAt == KeyAt
            idAt == IdAt
            kept == KeptKeys(TotalOf(keyAt, HunksAt), FirstOf(keyAt))
            FilesOf(keys) == {idAt[j] : j \in {j \in DOMAIN keyAt : keyAt[j] \in keys}}
            KeyOfStep(step) ==
                LET keys == {keyAt[j] : j \in {j \in DOMAIN idAt : idAt[j] \in RefIds(step)}}
                IN IF Cardinality(keys) = 1 THEN CHOOSE k \in keys : TRUE ELSE <<"misc">>
            stepKey == [i \in 1..Len(plan.steps) |-> KeyOfStep(plan.steps[i])]
        IN /\ Len(plan.steps) = 6
           /\ {stepKey[i] : i \in 1..5} = kept
           /\ \A i \in 1..5 : RefIds(plan.steps[i]) = FilesOf({stepKey[i]})
           /\ RefIds(plan.steps[6]) = FilesOf(Range(keyAt) \ kept)

\* a capped plan in which a kept group and a consolidated group have the same
\* hunk total, and the consolidated one comes from a later file
C19_Witness ==
    /\ hpc = "built"
    /\ Cardinality(GroupingKeys) = 8
    /\ Len(plan.steps) = 6
    /\ LET total == TotalOf(KeyAt, HunksAt)
           first == FirstOf(KeyAt)
           kept == KeptKeys(total, first)
       IN \E k \in kept : \E o \in DOMAIN total \ kept :
             total[k] = total[o] /\ first[k] < first[o]

\* the steps of the plan that reference a file
StepsHolding(file) == {i \in 1..Len(plan.steps) : file.file_id \in RefIds(plan.steps[i])}

TopSegment(file) == IF Len(file.file_id) > 1 THEN file.file_id[1] ELSE "(root)"

\* C20: every file is in exactly one step; a file matching the docs rule is in the
\* docs step whatever else it matches, one matching the tests rule and not the docs
\* rule in the tests step and never in the config step, one matching only the
\* config rule in the config step, and any other in the step of its top segment.
C20_ClassificationOrder ==
    Called =>
        \A f \in 1..Len(hIndex) :
            LET file == hIndex[f]
                holders == StepsHolding(file)
                step == plan.steps[CHOOSE i \in holders : TRUE]
                docs == isDocumentationFile(file)
                tests == isTestFile(file)
                config == isConfigFile(file)
            IN /\ Cardinality(holders) = 1
               /\ docs => step.badges = <<"Docs">>
               /\ (tests /\ ~docs) => step.badges = <<"Tests">>
               /\ (config /\ ~tests /\ ~docs) => step.badges = <<"Config">>
               /\ (~config /\ ~tests /\ ~docs) =>
                     /\ step.badges = <<"Code">>
                     /\ step.title = <<"Review ", humanizeSegment(TopSegment(file)), " changes">>

\* a plan over a file matching the docs and tests rules, one matching the tests and
\* config rules, and one matching the config rule alone
C20_Witness ==
    /\ hpc = "built"
    /\ \E f \in 1..Len(hIndex) :
          isDocumentationFile(hIndex[f]) /\ isTestFile(hIndex[f])
    /\ \E f \in 1..Len(hIndex) :
          ~isDocumentationFile(hIndex[f]) /\ isTestFile(hIndex[f]) /\ isConfigFile(hIndex[f])
    /\ \E f \in 1..Len(hIndex) :
          ~isDocumentationFile(hIndex[f]) /\ ~isTestFile(hIndex[f]) /\ isConfigFile(hIndex[f])
    /\ Len(plan.steps) = 3

----------------------------------------------------------------------------
(* Overview title *)

\* C21: on an index with reviewable hunks the overview title is the supplied
\* title itself when that title is not blank, and otherwise the sentence
\* "Heuristic walkthrough across N file(s)" with N the number of files of the index.
C21_TitleVerbatim ==
    (Called /\ Len(ReviewableFiles) > 0) =>
        IF hTitle # Undefined /\ Trim(hTitle) # ""
        THEN plan.pr_overview.title = <<hTitle>>
        ELSE plan.pr_overview.title =
                <<"Heuristic walkthrough across ", Len(hIndex), " file",
                  IF Len(hIndex) = 1 THEN "" ELSE "s">>

----------------------------------------------------------------------------
(* Prompt size *)

\* the file summaries of the prompt's diff summary
SummarisedFiles == {i \in DOMAIN prompt.diffSummary : prompt.diffSummary[i].kind = "file"}

\* the positions of hunk identifiers in the summary of one file
SummarisedHunks(i) ==
    {j \in DOMAIN prompt.diffSummary[i].hunkSummary :
        prompt.diffSummary[i].hunkSummary[j].kind = "hunk"}

\* the positions of file and hunk identifiers in the prompt's diff summary
DiffSummaryIds ==
    UNION {{<<i, j>> : j \in {0} \cup SummarisedHunks(i)} : i \in SummarisedFiles}

\* the number of identifiers in references 1..r
RECURSIVE RefIdCount(_, _)
RefIdCount(refs, r) ==
    IF r = 0 THEN 0 ELSE 1 + Len(refs[r].hunk_ids) + RefIdCount(refs, r - 1)

\* the number of file and hunk identifiers in lines 1..n of the baseline rendering
RECURSIVE BaselineIdCount(_, _)
BaselineIdCount(lines, n) ==
    IF n = 0 THEN 0
    ELSE RefIdCount(lines[n].refs, Len(lines[n].refs)) + BaselineIdCount(lines, n - 1)

\* the identifiers a prompt holds when both renderings stay within the two caps
PromptIdentifierCap == 2 * MAX_FILES_IN_PROMPT * (1 + MAX_HUNKS_PER_FILE_IN_PROMPT)

\* C22: the prompt of a call renders at most 24 files and at most 6 hunk
\* identifiers per file, notes the exact number of files and hunks left out, and
\* holds no more file and hunk identifiers than a fixed constant, whatever the
\* size of the index.
C22_PromptBounded ==
    prompt # NoPrompt =>
        LET summary == prompt.diffSummary
            index == lReq.diffIndex
        IN /\ Cardinality(SummarisedFiles) <= MAX_FILES_IN_PROMPT
           /\ \A i \in SummarisedFiles :
                 /\ Cardinality(SummarisedHunks(i)) <= MAX_HUNKS_PER_FILE_IN_PROMPT
                 /\ \A j \in DOMAIN summary[i].hunkSummary :
                       summary[i].hunkSummary[j].kind = "more hunks omitted" =>
                          summary[i].hunkSummary[j].omitted =
                             Len(index[i].hunks) - Cardinality(SummarisedHunks(i))
           /\ \A i \in DOMAIN summary :
                 summary[i].kind = "more files omitted" =>
                    summary[i].omitted = Len(index) - Cardinality(SummarisedFiles)
           /\ Cardinality(DiffSummaryIds)
                 + BaselineIdCount(prompt.heuristicSummary, Len(prompt.heuristicSummary))
              <= PromptIdentifierCap

----------------------------------------------------------------------------
(* URL canonicalisation *)

\* C29: parsing the htmlUrl of an accepted input succeeds and returns the same
\* owner, repo, prNumber, htmlUrl and diffUrl, the diffUrl being the htmlUrl
\* followed by ".diff".
C29_CanonicalIdempotent ==
    upc = "reparsed" =>
        /\ firstParse.value.diffUrl = <<firstParse.value.htmlUrl, ".diff">>
        /\ secondParse.ok
        /\ secondParse.value = firstParse.value

----------------------------------------------------------------------------
(* GET /api/diff *)

\* the request got a 2xx answer from upstream
UpstreamOk == githubResponse # NoGithubResponse /\ IsOk(githubResponse)

\* the content-length header of the upstream answer states a length above the cap
AdvertisesTooMuch ==
    /\ githubResponse.contentLength \notin {NullHeader, ""}
    /\ ToNumber(githubResponse.contentLength).finite
    /\ ToNumber(githubResponse.contentLength).value > MAX_DIFF_BYTES

\* the length of the UTF-8 encoding of the text of the upstream body
UpstreamTextLength == EncodedLength(DecodeBody(githubResponse.body))

\* C23: a 200 answer never carries more than 1,048,576 bytes.  On a 2xx upstream
\* answer whose content-length header states more than the cap the route answers
\* 413 without reading the body; when the header is missing or states less and the
\* text of the body is longer than the cap it answers 413 as well; a text of exactly
\* the cap is passed on as it was read.
C23_SizeCap ==
    /\ diffResponse.status = 200 => EncodedLength(diffResponse.body) <= MAX_DIFF_BYTES
    /\ (dpc = "done" /\ UpstreamOk) =>
          /\ AdvertisesTooMuch => (diffResponse.status = 413 /\ diffText = NoText)
          /\ (~AdvertisesTooMuch /\ UpstreamTextLength > MAX_DIFF_BYTES) =>
                diffResponse.status = 413
          /\ (~AdvertisesTooMuch /\ UpstreamTextLength = MAX_DIFF_BYTES) =>
                diffResponse = DiffResponse(200, "", DecodeBody(githubResponse.body))

\* a 2xx answer whose header states 1024 bytes and whose body is longer than the cap
C23_Witness ==
    /\ dpc = "done"
    /\ UpstreamOk
    /\ githubResponse.contentLength = "1024"
    /\ githubResponse.body.bytes > MAX_DIFF_BYTES
    /\ diffText # NoText
    /\ diffResponse.status = 413

\* C24: a missing or invalid prUrl is answered 400 with the message of the URL
\* parser and nothing is fetched; a fetch that throws is answered 502; upstream 429,
\* or 403 with x-ratelimit-remaining "0", is answered 429; upstream 404 is answered
\* 404; any other upstream status outside 2xx is answered 502; a 200 answer is given
\* only on a 2xx upstream answer.
C24_OutcomePriority ==
    dpc = "done" =>
        LET missing == dRawPrUrl \in {NoParam, EmptyText}
            result == parseGitHubPrUrl(dRawPrUrl)
            fetched == diffUrl # <<EmptyText, "">>
            limited == \/ githubResponse.status = 429
                       \/ githubResponse.status = 403 /\ githubResponse.remaining = "0"
        IN /\ (missing \/ ~result.ok) =>
                 /\ diffResponse.status = 400
                 /\ diffResponse.error =
                       (IF missing THEN "Enter a GitHub pull request URL." ELSE result.error)
                 /\ ~fetched
                 /\ githubResponse = NoGithubResponse
           /\ (~missing /\ result.ok) =>
                 /\ fetched
                 /\ diffUrl = result.value.diffUrl
                 /\ githubResponse = NoGithubResponse => diffResponse.status = 502
                 /\ githubResponse # NoGithubResponse =>
                       /\ limited => diffResponse.status = 429
                       /\ (~limited /\ githubResponse.status = 404) =>
                             diffResponse.status = 404
                       /\ (~limited /\ githubResponse.status # 404 /\ ~IsOk(githubResponse)) =>
                             diffResponse.status = 502
           /\ diffResponse.status = 200 => UpstreamOk

\* upstream answered 403 with requests remaining, which is answered 502
C24_Witness ==
    /\ dpc = "done"
    /\ githubResponse.status = 403
    /\ githubResponse.remaining = "1"
    /\ diffResponse.status = 502

----------------------------------------------------------------------------
(* Partition of the reviewable files *)

\* the references of the plan, as pairs of step and position in the step
PlanRefs ==
    UNION {{<<s, r>> : r \in 1..Len(plan.steps[s].diff_refs)} : s \in 1..Len(plan.steps)}

\* C25: every file of the index with a hunk is referenced by exactly one reference
\* of the plan, which lists all its hunk ids in their order; a file without hunks is
\* referenced by none; every reference is to a file of the index; and the references
\* of a step other than the consolidated one follow the order of the index.
C25_StepsPartitionFiles ==
    Called =>
        LET refs == PlanRefs
            RefAt(sr) == plan.steps[sr[1]].diff_refs[sr[2]]
            RefsTo(file) == {sr \in refs : RefAt(sr).file_id = file.file_id}
            IndexOf(ref) == CHOOSE f \in 1..Len(hIndex) : hIndex[f].file_id = ref.file_id
        IN /\ \A f \in 1..Len(hIndex) :
                 IF HasHunks(hIndex[f])
                 THEN /\ Cardinality(RefsTo(hIndex[f])) = 1
                      /\ \A sr \in RefsTo(hIndex[f]) :
                            RefAt(sr).hunk_ids =
                               [j \in 1..Len(hIndex[f].hunks) |-> hIndex[f].hunks[j].hunk_id]
                 ELSE RefsTo(hIndex[f]) = {}
           /\ \A sr \in refs : \E f \in 1..Len(hIndex) : hIndex[f].file_id = RefAt(sr).file_id
           /\ \A s \in 1..Len(plan.steps) :
                 plan.steps[s].title # MiscTitle =>
                    \A a \in 1..Len(plan.steps[s].diff_refs) :
                       \A b \in 1..Len(plan.steps[s].diff_refs) :
                          a < b => IndexOf(plan.steps[s].diff_refs[a])
                                      < IndexOf(plan.steps[s].diff_refs[b])

\* a capped plan with a step of two files next to the consolidated step
C25_Witness ==
    /\ hpc = "built"
    /\ Cardinality(GroupingKeys) >= 7
    /\ Len(plan.steps) = 6
    /\ \E s \in 1..5 : Len(plan.steps[s].diff_refs) = 2
    /\ Len(plan.steps[6].diff_refs) >= 2

----------------------------------------------------------------------------
(* Parser output and the request schema *)

\* C26: the index returned by the parser satisfies DiffIndexSchema, so that the
\* GroupingRequestSchema.parse call applied to it does not throw.
C26_ParserOutputValid ==
    ppc = "done" => GroupingRequestSchema(Payload(TRUE, files, Undefined))

----------------------------------------------------------------------------
(* Uniqueness of identifiers *)

\* the hunks of the returned index, as pairs of entry and position in the entry
IndexHunks == UNION {{<<f, h>> : h \in 1..Len(files[f].hunks)} : f \in 1..Len(files)}

\* C27: in the index returned by one call, every entry of which has a hunk, no two
\* hunks have the same hunk_id and no two entries the same file_id.
C27_HunkIdsDistinct ==
    (ppc = "done" /\ \A f \in 1..Len(files) : Len(files[f].hunks) > 0) =>
        /\ \A a \in IndexHunks : \A b \in IndexHunks :
              a # b => files[a[1]].hunks[a[2]].hunk_id # files[b[1]].hunks[b[2]].hunk_id
        /\ \A f \in 1..Len(files) : \A g \in 1..Len(files) :
              f # g => files[f].file_id # files[g].file_id

----------------------------------------------------------------------------
(* Identity of a block after its first hunk *)

\* the lines of the block being read, from its "diff --git" line on
CurrentBlock == Last(Blocks(consumed))

\* the position of the first hunk header in the block being read
FirstHunkOf(block) ==
    CHOOSE i \in 1..Len(block) :
        IsHunkHeader(block[i]) /\ \A j \in 1..(i - 1) : ~IsHunkHeader(block[j])

\* the working file as it was when the first hunk of the block had been recorded
AtFirstHunk ==
    ScanLines(PState(NoFile, <<>>),
              SubSeq(CurrentBlock, 1, FirstHunkOf(CurrentBlock))).currentFile

\* C28: while a block is read, once its first hunk is recorded, its old path, new
\* path and status are those it had when that hunk was recorded, whatever lines
\* followed.
C28_IdentityFixedAtFirstHunk ==
    (ppc = "scan" /\ currentFile # NoFile /\ Len(currentFile.hunks) > 0) =>
        /\ currentFile.oldPath = AtFirstHunk.oldPath
        /\ currentFile.newPath = AtFirstHunk.newPath
        /\ currentFile.status = AtFirstHunk.status


----------------------------------------------------------------------------
(* C30: in StepViewer with N >= 1 steps, whatever integer initialStepIndex
   was given and whatever buttons, rail entries and n/p keys were used, the
   active index lies in 0..N-1; Previous (button or p) used at index 0 and
   Next (button or n) used at index N-1 leave the index where it was; and
   every call of onStepChange carries an index of 0..N-1, the last one the
   index that is active now. *)
ViewerShown == vpc \in {"mounted", "ready"} /\ totalSteps >= 1

C30_IndexClamped ==
    ViewerShown =>
        /\ activeIndex \in 0..(totalSteps - 1)
        /\ currentIndex = activeIndex
        /\ (lastOp.kind \in {"previous", "p"} /\ lastOp.before = 0) => activeIndex = 0
        /\ (lastOp.kind \in {"next", "n"} /\ lastOp.before = totalSteps - 1)
               => activeIndex = totalSteps - 1
        /\ \A i \in 1..Len(stepChanges) : stepChanges[i] \in 0..(totalSteps - 1)
        /\ (lastOp.kind = "none") = (stepChanges = <<>>)
        /\ stepChanges # <<>> => stepChanges[Len(stepChanges)] = activeIndex

\* a viewer of three steps given initialStepIndex 4: rail entry 0, then p at
\* index 0, then Next
C30_Witness ==
    /\ ViewerShown
    /\ totalSteps = 3
    /\ initialStepIndex = StepIndexProp(TRUE, 4)
    /\ stepChanges = <<0, 0, 1>>
    /\ lastOp = Operation("next", 0)
    /\ activeIndex = 1

=============================================================================
